---- MODULE Spec2Model ----
(***************************************************************************)
(* Multi-agent investment pipeline of sports-card-ai-agent.                *)
(*                                                                         *)
(*   SpecSup : one run of SupervisorAgent.analyze_investment_opportunity   *)
(*             (asyncio.gather over the market and player coroutines, the  *)
(*             Strategy Agent call and the persistence hand-off).          *)
(*   SpecCB  : the CircuitBreaker and the price cache of one               *)
(*             MarketResearchAgent instance, shared by overlapping         *)
(*             research_card_market calls; the search is a collaborator    *)
(*             that returns listings or raises.                            *)
(*   SpecEbay: research_card_market calls one after the other, the search  *)
(*             done by EBayTool.search_cards over its three backends.      *)
(*   SpecPL  : MarketResearchAgent._process_listings as a function of the  *)
(*             list of listings.                                           *)
(*   SpecTS  : TradingStrategyAgent: construction, set_thresholds and      *)
(*             generate_trading_strategy.                                  *)
(*   SpecRecover: the calls that reach the breaker, scheduled fairly, with *)
(*             failing searches only while the recovery timeout can still  *)
(*             elapse.                                                     *)
(*   SpecCache: one caller, the price cache over its TTL, clear_cache.     *)
(*   SpecPA  : PlayerAnalysisAgent.analyze_player over the statistics,     *)
(*             news and sentiment its tools hand back.                     *)
(*   SpecPipe: analyze_investment_opportunity from the market result       *)
(*             research_card_market returned to the dict it returns.       *)
(*                                                                         *)
(* Scheduling is asyncio's: single-threaded, cooperative.  An action is    *)
(* one non-suspending stretch of a coroutine.                              *)
(***************************************************************************)
EXTENDS Integers, Sequences, FiniteSets, TLC

\* ------------------------------------------------------------------ bounds
\* longest I/O wait (in time units) of an agent call under the Supervisor
MaxWait == 2
\* seconds between two observations of the wall clock, and the last one
TimeStep == 30
MaxTime == 150
\* failing searches are no longer injected once failure_count reaches this
MaxFailureCount == 7

\* most sold and most active listings in a list handed to _process_listings
MaxSold == 11
MaxUnsold == 1

\* the clock of the cache: one step, and the end of the observation
CacheStep == 300
MaxCacheTime == 1200

\* ------------------------------------------------------ program constants
\* CircuitBreaker(failure_threshold=5, recovery_timeout=60.0)
FailureThreshold == 5
RecoveryTimeout == 60
\* self._cache_ttl_seconds
CacheTtlSeconds == 900

\* ------------------------------------------------------------- supervisor
VARIABLES
    supPc,          \* position of analyze_investment_opportunity
    task,           \* the two tasks gather() wraps the coroutines in
    supClock,       \* time units elapsed since gather() was called
    joinedAt,       \* supClock when the await on gather() resumed, -1 before
    settleOrder,    \* tasks in the order in which they settled
    strategyCalls,  \* calls of strategy_agent.generate_trading_strategy
    strategyRet,    \* what the last of these calls handed back
    persistCalls,   \* calls of save_analysis_to_db
    persistOutcome, \* how the last call of save_analysis_to_db ended
    supResult       \* what analyze_investment_opportunity returned / raised

supVars == <<supPc, task, supClock, joinedAt, settleOrder, strategyCalls,
             strategyRet, persistCalls, persistOutcome, supResult>>

\* ------------------------------------- market research / circuit breaker
VARIABLES
    now,            \* datetime.now(), in seconds
    cb,             \* the CircuitBreaker: state, failure_count, last_failure
    call,           \* the research_card_market calls of the callers
    priceCache,     \* MarketResearchAgent._price_cache
    streak          \* wrapped calls that failed since the last one that
                    \* succeeded (history, not program state)

cbVars == <<now, cb, call, priceCache, streak>>

\* ------------------------------------ market research over the eBay tool
VARIABLES
    ebayCfg,        \* which credentials EBayTool.__init__ found in settings
    ebayAnswers,    \* what the backends asked by the last search answered
                    \* (history, not program state)
    ebayResult      \* what the last research_card_market call returned

ebVars == <<ebayCfg, ebayAnswers, ebayResult>>

\* ------------------------------------------------------ _process_listings
VARIABLES
    plListings,     \* the listings handed to _process_listings
    plResult        \* what it returned

plVars == <<plListings, plResult>>

\* --------------------------------------------------- TradingStrategyAgent
VARIABLES
    tsCfg,          \* buy_threshold, hold_threshold, entry_discount,
                    \* target_multiplier, stop_loss_discount of the agent
    tsMarket,       \* the market_analysis argument
    tsPlayer,       \* the player_analysis argument
    tsPc,           \* "idle", or "returned" once a strategy call has ended
    tsResult        \* what generate_trading_strategy returned

tsVars == <<tsCfg, tsMarket, tsPlayer, tsPc, tsResult>>

\* ---------------------------------------------------- PlayerAnalysisAgent
VARIABLES
    paIn,           \* the call: sport, what the stats providers answer, the
                    \* current_performance text
    paPc,           \* position of analyze_player
    paAnalysis,     \* its locals score, trend, rating, outlook and stats
    paNews,         \* its local news_data
    paAsked,        \* whether analyze_news_sentiment was called (history)
    paResult        \* what analyze_player returned / raised

paVars == <<paIn, paPc, paAnalysis, paNews, paAsked, paResult>>

\* --------------------------- the pipeline from the market result onwards
VARIABLES
    pipeMarket,     \* the market analysis gather() handed back
    pipePlayer,     \* the player analysis gather() handed back
    pipePc,         \* position of analyze_investment_opportunity
    pipeStrategy,   \* what generate_trading_strategy returned
    pipePersisted,  \* calls of save_analysis_to_db
    pipeResult      \* what analyze_investment_opportunity returned / raised

pipeVars == <<pipeMarket, pipePlayer, pipePc, pipeStrategy, pipePersisted,
              pipeResult>>

vars == <<supVars, cbVars, ebVars, plVars, tsVars, paVars, pipeVars>>

\* the variables a group of actions leaves alone
restSup == <<cbVars, ebVars, plVars, tsVars, paVars, pipeVars>>
restCB == <<supVars, ebVars, plVars, tsVars, paVars, pipeVars>>
restEbay == <<supVars, plVars, tsVars, paVars, pipeVars>>
restPL == <<supVars, cbVars, ebVars, tsVars, paVars, pipeVars>>
restTS == <<supVars, cbVars, ebVars, plVars, paVars, pipeVars>>
restPA == <<supVars, cbVars, ebVars, plVars, tsVars, pipeVars>>
restPipe == <<supVars, cbVars, ebVars, plVars, tsVars, paVars>>

Tasks == {"market", "player"}

\* what an agent coroutine does once its I/O wait is over
AgentOutcomes == {"ok", "raise"}

\* str(e) of the exception an agent call raised
ExcText(t) == IF t = "market" THEN "market_exc" ELSE "player_exc"

NoResult == [kind |-> "none", success |-> "absent", error |-> <<"absent">>,
             recommendation |-> "absent"]

\* supervisor_agent.py:49-53, 71-75, 79-83: the top-level error dict
ErrorResult(err) ==
    [kind |-> "returned", success |-> "false", error |-> err,
     recommendation |-> "absent"]

\* supervisor_agent.py:87-104: the consolidated result (it has no
\* "success" and no "error" key)
FullResult(strategy) ==
    [kind |-> "returned", success |-> "absent", error |-> <<"absent">>,
     recommendation |-> strategy.signal]

\* an exception left analyze_investment_opportunity
RaisedResult(exc) ==
    [kind |-> "raised", success |-> "absent", error |-> <<exc>>,
     recommendation |-> "absent"]

\* what generate_trading_strategy can hand back to the Supervisor: a
\* strategy, the error sentinel (strategy None) with or without an "error"
\* key, or an exception
Signals == {"BUY", "HOLD", "SELL"}
StrategyReturns ==
    [kind : {"strategy"}, signal : Signals, error : {"absent"}]
    \cup [kind : {"sentinel"}, signal : {"None"},
          error : {"absent", "strategy_error_text"}]
    \cup [kind : {"raise"}, signal : {"None"}, error : {"strategy_exc"}]

NoStrategyReturn == [kind |-> "none", signal |-> "None", error |-> "absent"]

\* variant: the Strategy Agent's own error text is dropped
GetErrorDefaultOnly(ts) == "Strategy generation failed"

\* trading_strategy.get("error", "Strategy generation failed")
GetError(ts) ==
    IF ts.error = "absent" THEN "Strategy generation failed" ELSE ts.error

\* ---- save_analysis_to_db: binding of the call at supervisor_agent.py:107
\* keyword arguments the Supervisor passes
SaveCallKwargs ==
    {"player_name", "sport", "card_info", "market", "performance", "strategy"}
\* parameters save_analysis_to_db declares, and those without a default
SaveParams ==
    {"player_name", "year", "manufacturer", "sport", "analysis_result",
     "analysis_type"}
SaveRequired == SaveParams \ {"analysis_type"}
\* Python binds a keyword call iff every keyword names a parameter and
\* every parameter without default is given; otherwise TypeError
BindsOk(kwargs) == kwargs \subseteq SaveParams /\ SaveRequired \subseteq kwargs

\* ---- asyncio.gather over the two coroutines
Settled(t) == task[t].st \in {"done", "failed"}
\* a task whose I/O has completed and that the loop can resume
Ready(t) == task[t].st = "running" /\ task[t].wait = 0
\* variant: the two calls are awaited one after the other, the player
\* call making progress only once the market call is over
SuspendedInTurn(t) ==
    /\ task[t].st = "running"
    /\ task[t].wait > 0
    /\ t = "player" => task["market"].st # "running"

\* a task suspended on I/O: all suspended tasks wait at the same time
Suspended(t) == task[t].st = "running" /\ task[t].wait > 0
\* gather(return_exceptions=False): the awaiting coroutine is resumed with
\* the first exception as soon as one child raises, or with the results
\* once every child has finished
GatherRaised == \E t \in Tasks : task[t].st = "failed"
GatherDone == \A t \in Tasks : task[t].st = "done"
SupReady == supPc = "joining" /\ (GatherRaised \/ GatherDone)

SupInit ==
    /\ supPc = "start"
    /\ task = [t \in Tasks |-> [st |-> "unstarted", wait |-> 0, wait0 |-> 0,
                                 outcome |-> "ok"]]
    /\ supClock = 0
    /\ joinedAt = -1
    /\ settleOrder = <<>>
    /\ strategyCalls = 0
    /\ strategyRet = NoStrategyReturn
    /\ persistCalls = 0
    /\ persistOutcome = "none"
    /\ supResult = NoResult

\* supervisor_agent.py:33-44: both coroutines are created, gather() wraps
\* both in tasks and the Supervisor suspends on the aggregate future
Gather ==
    /\ supPc = "start"
    /\ \E mw \in 0..MaxWait, pw \in 0..MaxWait,
          mo \in AgentOutcomes, po \in AgentOutcomes :
         task' = [t \in Tasks |->
                    [st |-> "running",
                     wait |-> IF t = "market" THEN mw ELSE pw,
                     wait0 |-> IF t = "market" THEN mw ELSE pw,
                     outcome |-> IF t = "market" THEN mo ELSE po]]
    /\ supPc' = "joining"
    /\ UNCHANGED <<supClock, joinedAt, settleOrder, strategyCalls,
                   strategyRet, persistCalls, persistOutcome, supResult>>
    /\ UNCHANGED restSup

\* a task whose wait is over runs to its end: it returns or raises.  The
\* loop runs ready callbacks in FIFO order, so a player task that never
\* suspends runs after the first step of the market task.
TaskSettles(t) ==
    /\ Ready(t)
    /\ (t = "player" /\ task["market"].wait0 = 0) => Settled("market")
    /\ task' = [task EXCEPT ![t].st =
                   IF task[t].outcome = "ok" THEN "done" ELSE "failed"]
    /\ settleOrder' = Append(settleOrder, t)
    /\ UNCHANGED <<supPc, supClock, joinedAt, strategyCalls, strategyRet,
                   persistCalls, persistOutcome, supResult>>
    /\ UNCHANGED restSup

\* time passes only while nothing is runnable (the work is I/O-bound)
SupTick ==
    /\ supPc \in {"joining", "finished"}
    /\ \E t \in Tasks : Suspended(t)
    /\ ~ \E t \in Tasks : Ready(t)
    /\ ~ SupReady
    /\ task' = [t \in Tasks |->
                  IF Suspended(t) THEN [task[t] EXCEPT !.wait = @ - 1]
                  ELSE task[t]]
    /\ supClock' = supClock + 1
    /\ UNCHANGED <<supPc, joinedAt, settleOrder, strategyCalls,
                   strategyRet, persistCalls, persistOutcome, supResult>>
    /\ UNCHANGED restSup

\* the first exception of a child, in settle order
FirstFailed ==
    LET i == CHOOSE k \in 1..Len(settleOrder) :
               /\ task[settleOrder[k]].st = "failed"
               /\ \A j \in 1..(k - 1) : task[settleOrder[j]].st # "failed"
    IN settleOrder[i]

\* variant: the exception of a child is dropped and the pipeline goes on
JoinRaisesIgnored ==
    /\ supPc = "joining"
    /\ GatherRaised
    /\ \E ts \in StrategyReturns :
         /\ ts.kind = "strategy"
         /\ strategyRet' = ts
         /\ supResult' = FullResult(ts)
    /\ supPc' = "finished"
    /\ joinedAt' = supClock
    /\ strategyCalls' = strategyCalls + 1
    /\ persistCalls' = persistCalls + 1
    /\ UNCHANGED <<task, supClock, settleOrder, persistOutcome>>
    /\ UNCHANGED restSup

\* supervisor_agent.py:46-53: gather raised
JoinRaises ==
    /\ supPc = "joining"
    /\ GatherRaised
    /\ supPc' = "finished"
    /\ joinedAt' = supClock
    /\ supResult' = ErrorResult(<<"Analysis failed: ", ExcText(FirstFailed)>>)
    /\ UNCHANGED <<task, supClock, settleOrder, strategyCalls, strategyRet,
                   persistCalls, persistOutcome>>
    /\ UNCHANGED restSup

\* supervisor_agent.py:45-75: both results are in, the Strategy Agent raises
FinishStrategyRaises ==
    /\ supPc = "joining"
    /\ GatherDone
    /\ \E ts \in StrategyReturns :
         /\ ts.kind = "raise"
         /\ strategyRet' = ts
         /\ supResult' =
              ErrorResult(<<"Strategy generation failed: ", ts.error>>)
    /\ supPc' = "finished"
    /\ joinedAt' = supClock
    /\ strategyCalls' = strategyCalls + 1
    /\ UNCHANGED <<task, supClock, settleOrder, persistCalls,
                   persistOutcome>>
    /\ UNCHANGED restSup

\* supervisor_agent.py:45-83: the Strategy Agent returns its error sentinel
FinishStrategySentinel ==
    /\ supPc = "joining"
    /\ GatherDone
    /\ \E ts \in StrategyReturns :
         /\ ts.kind = "sentinel"
         /\ strategyRet' = ts
         /\ supResult' = ErrorResult(<<GetError(ts)>>)
    /\ supPc' = "finished"
    /\ joinedAt' = supClock
    /\ strategyCalls' = strategyCalls + 1
    /\ UNCHANGED <<task, supClock, settleOrder, persistCalls,
                   persistOutcome>>
    /\ UNCHANGED restSup

\* supervisor_agent.py:45-116: full success; the result is assembled, then
\* save_analysis_to_db is called and its return value is discarded
FinishFullSuccess ==
    /\ supPc = "joining"
    /\ GatherDone
    /\ \E ts \in StrategyReturns, saved \in {"True", "False"} :
         /\ ts.kind = "strategy"
         /\ strategyRet' = ts
         /\ IF BindsOk(SaveCallKwargs)
            THEN /\ persistOutcome' = saved
                 /\ supResult' = FullResult(ts)
            ELSE /\ persistOutcome' = "TypeError"
                 /\ supResult' = RaisedResult("TypeError")
    /\ supPc' = "finished"
    /\ joinedAt' = supClock
    /\ strategyCalls' = strategyCalls + 1
    /\ persistCalls' = persistCalls + 1
    /\ UNCHANGED <<task, supClock, settleOrder>>
    /\ UNCHANGED restSup

SupNext ==
    \/ Gather
    \/ \E t \in Tasks : TaskSettles(t)
    \/ SupTick
    \/ JoinRaises
    \/ FinishStrategyRaises
    \/ FinishStrategySentinel
    \/ FinishFullSuccess

\* ------------------------------------------------- claims: the Supervisor
Max(a, b) == IF a >= b THEN a ELSE b

\* C1: if the market-research call or the player-analysis call raised, the
\* Supervisor's result is the error object (success false, an error text
\* naming the failure), with no recommendation, and neither the Strategy
\* Agent nor save_analysis_to_db has been called.
C1_AgentRaiseGivesErrorResult ==
    (supPc = "finished" /\ \E t \in Tasks : task[t].st = "failed") =>
        /\ supResult.kind = "returned"
        /\ supResult.success = "false"
        /\ Len(supResult.error) = 2
        /\ supResult.error[1] = "Analysis failed: "
        /\ \E t \in Tasks :
             /\ task[t].st = "failed"
             /\ settleOrder[1] = t \/ task[settleOrder[1]].st = "done"
             /\ supResult.error[2] = ExcText(t)
        /\ supResult.recommendation = "absent"
        /\ strategyCalls = 0
        /\ persistCalls = 0

C1_Witness ==
    /\ supPc = "finished"
    /\ task["player"].st = "failed"
    /\ task["market"].st = "done"
    /\ supResult.success = "false"
    /\ supResult.error = <<"Analysis failed: ", "player_exc">>

\* C2 (as stated): once the Supervisor is past the join, both the market
\* task and the player task have settled.
C2_JoinWaitsForBoth ==
    supPc = "finished" => \A t \in Tasks : Settled(t)

\* C3 (as stated): on the full-success path save_analysis_to_db is called
\* exactly once and, however that call ends, the Supervisor returns the
\* consolidated recommendation instead of raising.
C3_PersistenceNeverBlocksResult ==
    (supPc = "finished" /\ strategyRet.kind = "strategy") =>
        /\ persistCalls = 1
        /\ supResult.kind = "returned"
        /\ supResult.recommendation = strategyRet.signal

\* C4: when the Strategy Agent hands back its error sentinel, the result is
\* the error object carrying the Strategy Agent's error text, or the
\* default text when it gave none; there is no recommendation and
\* save_analysis_to_db has not been called.
C4_SentinelGivesErrorResult ==
    (supPc = "finished" /\ strategyRet.kind = "sentinel") =>
        /\ supResult.kind = "returned"
        /\ supResult.success = "false"
        /\ supResult.error =
             IF strategyRet.error = "absent"
             THEN <<"Strategy generation failed">>
             ELSE <<strategyRet.error>>
        /\ supResult.recommendation = "absent"
        /\ persistCalls = 0

C4_Witness ==
    /\ supPc = "finished"
    /\ strategyRet.kind = "sentinel"
    /\ strategyRet.error = "strategy_error_text"
    /\ supResult.error = <<"strategy_error_text">>

\* C5: both calls are started before either has finished, and when both
\* succeed the Supervisor resumes after the longer of the two waits, not
\* after their sum.
C5_CallsRunConcurrently ==
    /\ (\E t \in Tasks : Settled(t)) =>
           \A u \in Tasks : task[u].st # "unstarted"
    /\ (supPc = "finished" /\ GatherDone) =>
           joinedAt = Max(task["market"].wait0, task["player"].wait0)

\* the player call started and finished while the market call was suspended
C5_Witness ==
    /\ supPc = "finished"
    /\ GatherDone
    /\ settleOrder = <<"player", "market">>
    /\ task["player"].wait0 = 1
    /\ task["market"].wait0 = 2
    /\ joinedAt = 2


\* ---------------------------------------------------------- CircuitBreaker
Callers == {"r1", "r2"}
Queries == {"q1"}
NoTime == -1

\* CircuitBreaker.__init__
NewBreaker == [state |-> "closed", failure_count |-> 0, last_failure |-> NoTime]

\* variant: the cooldown comparison is inverted
AEnterInverted(b, t) ==
    IF b.state = "open"
    THEN IF b.last_failure # NoTime
         THEN IF t - b.last_failure < RecoveryTimeout
              THEN [cb |-> [b EXCEPT !.state = "half-open"], raised |-> FALSE]
              ELSE [cb |-> b, raised |-> TRUE]
         ELSE [cb |-> b, raised |-> FALSE]
    ELSE [cb |-> b, raised |-> FALSE]

\* CircuitBreaker.__aenter__ at time t: the breaker afterwards, and whether
\* APITemporarilyUnavailableError was raised
AEnter(b, t) ==
    IF b.state = "open"
    THEN IF b.last_failure # NoTime
         THEN IF t - b.last_failure > RecoveryTimeout
              THEN [cb |-> [b EXCEPT !.state = "half-open"], raised |-> FALSE]
              ELSE [cb |-> b, raised |-> TRUE]
         ELSE [cb |-> b, raised |-> FALSE]
    ELSE [cb |-> b, raised |-> FALSE]

\* variant: the breaker opens only above the threshold
AExitAboveThreshold(b, t, exc) ==
    IF exc
    THEN [state |-> IF b.failure_count + 1 > FailureThreshold
                    THEN "open" ELSE b.state,
          failure_count |-> b.failure_count + 1,
          last_failure |-> t]
    ELSE [state |-> IF b.state = "half-open" THEN "closed" ELSE b.state,
          failure_count |-> 0,
          last_failure |-> b.last_failure]

\* variant: a successful trial call resets the counter and leaves the
\* state as it is
AExitStaysHalfOpen(b, t, exc) ==
    IF exc
    THEN [state |-> IF b.failure_count + 1 >= FailureThreshold
                    THEN "open" ELSE b.state,
          failure_count |-> b.failure_count + 1,
          last_failure |-> t]
    ELSE [state |-> b.state,
          failure_count |-> 0,
          last_failure |-> b.last_failure]

\* CircuitBreaker.__aexit__ at time t; exc: the body raised
AExit(b, t, exc) ==
    IF exc
    THEN [state |-> IF b.failure_count + 1 >= FailureThreshold
                    THEN "open" ELSE b.state,
          failure_count |-> b.failure_count + 1,
          last_failure |-> t]
    ELSE [state |-> IF b.state = "half-open" THEN "closed" ELSE b.state,
          failure_count |-> 0,
          last_failure |-> b.last_failure]

\* CircuitBreaker.is_open
IsOpen(b) == b.state = "open"

\* ----------------------------------------------------- MarketResearchAgent
\* Money is counted in cents and percentages in hundredths of a percent, so
\* a value rounded to two decimals is an integer.

\* round(num / den, 2) for num >= 0, den > 0.  The quotient is a binary
\* double: where it lies exactly between two cents the double may sit on
\* either side, so both neighbours are possible results.
Round2(num, den) ==
    LET f == num \div den
        r == num % den
    IN  IF 2 * r < den THEN {f}
        ELSE IF 2 * r > den THEN {f + 1}
        ELSE {f, f + 1}

\* an EBayListing, as far as _process_listings reads it
Listing(price, sold) == [price |-> price, sold |-> sold]

\* the three sold listings of the unit tests: 599.99, 649.99, 499.99
SampleListings ==
    <<Listing(59999, TRUE), Listing(64999, TRUE), Listing(49999, TRUE)>>

\* what ebay_tool.search_cards hands back: a list of listings (none at all,
\* sold ones, active ones only, a sold one whose price was parsed as 0),
\* EBayRateLimitError, or another exception
SearchOk == {<< >>, SampleListings, <<Listing(1999, FALSE)>>,
             <<Listing(0, TRUE)>>}
SearchExc == {"ratelimit", "error"}

\* the response dict, flattened; "absent" / NoTime stand for a missing key,
\* kind names the function that built the dict and is not a key of it
NoMarketResult ==
    [kind |-> "none", card |-> "none", from_cache |-> FALSE,
     error |-> "absent", count |-> 0, average_price |-> 0, min_price |-> 0,
     max_price |-> 0, liquidity |-> "none", price_gap_percentage |-> 0,
     market_insight |-> << >>, cached_at |-> NoTime]

\* [l.price for l in listings if l.sold]
SoldPrices(listings) ==
    LET s == SelectSeq(listings, LAMBDA l : l.sold)
    IN  [i \in 1..Len(s) |-> s[i].price]

RECURSIVE SeqSum(_)
SeqSum(s) == IF s = << >> THEN 0 ELSE Head(s) + SeqSum(Tail(s))

SeqMin(s) == CHOOSE x \in {s[i] : i \in 1..Len(s)} :
                 \A i \in 1..Len(s) : x <= s[i]

SeqMax(s) == CHOOSE x \in {s[i] : i \in 1..Len(s)} :
                 \A i \in 1..Len(s) : x >= s[i]

\* the liquidity tier of _process_listings
Liquidity(n) == IF n >= 10 THEN "Alta" ELSE IF n >= 5 THEN "Media" ELSE "Baja"

\* MarketResearchAgent._generate_market_insight; avg_price is the unrounded
\* mean num / den, the sentences are listed instead of joined
GenerateMarketInsight(listing_count, avg_price, liquidity) ==
    (IF listing_count < 3
     THEN <<"Datos limitados - precaucion al tomar decisiones.">>
     ELSE IF listing_count >= 10
     THEN <<"Mercado activo con buena muestra de datos.">>
     ELSE << >>)
    \o (IF liquidity = "Alta"
        THEN <<"Alta liquidez - facil encontrar compradores.">>
        ELSE IF liquidity = "Baja"
        THEN <<"Baja liquidez - puede haber dificultad para vender.">>
        ELSE << >>)
    \o (IF avg_price.num > 100000 * avg_price.den
        THEN <<"Segmento premium.">>
        ELSE IF avg_price.num > 50000 * avg_price.den
        THEN <<"Segmento de precio medio-alto.">>
        ELSE IF avg_price.num > 10000 * avg_price.den
        THEN <<"Segmento de precio medio.">>
        ELSE <<"Segmento economico.">>)

\* MarketResearchAgent._create_empty_response
CreateEmptyResponse(search_query) ==
    [kind |-> "empty", card |-> search_query, from_cache |-> FALSE,
     error |-> "No sales data available", count |-> 0, average_price |-> 0,
     min_price |-> 0, max_price |-> 0, liquidity |-> "Desconocida",
     price_gap_percentage |-> 0,
     market_insight |->
         <<"No hay suficientes datos de ventas para analizar.">>,
     cached_at |-> NoTime]

\* the division by avg_price in _process_listings raised: no dict is built
ProcessingRaised(search_query) ==
    [NoMarketResult EXCEPT !.kind = "raised", !.card = search_query,
                           !.error = "ZeroDivisionError"]

\* MarketResearchAgent._process_listings: the dicts it can return (one,
\* unless a mean or a spread falls halfway between two cents)
ProcessListings(search_query, listings) ==
    LET sold_prices == SoldPrices(listings)
        n == Len(sold_prices)
        total == SeqSum(sold_prices)
    IN  IF sold_prices = << >> THEN {CreateEmptyResponse(search_query)}
        ELSE IF total = 0 THEN {ProcessingRaised(search_query)}
        ELSE {[kind |-> "snapshot", card |-> search_query,
               from_cache |-> FALSE, error |-> "absent", count |-> n,
               average_price |-> a,
               min_price |-> SeqMin(sold_prices),
               max_price |-> SeqMax(sold_prices),
               liquidity |-> Liquidity(n),
               price_gap_percentage |-> g,
               market_insight |->
                   GenerateMarketInsight(n, [num |-> total, den |-> n],
                                         Liquidity(n)),
               cached_at |-> NoTime] :
                 a \in Round2(total, n),
                 g \in Round2((SeqMax(sold_prices) - SeqMin(sold_prices))
                                  * n * 10000, total)}

\* variant: the insight of the fallback response does not carry the error
CreateFallbackResponseBare(search_query, error) ==
    [kind |-> "fallback", card |-> search_query, from_cache |-> FALSE,
     error |-> error, count |-> 0, average_price |-> 0, min_price |-> 0,
     max_price |-> 0, liquidity |-> "Desconocida",
     price_gap_percentage |-> 0,
     market_insight |-> <<"Error al obtener datos:">>,
     cached_at |-> NoTime]

\* MarketResearchAgent._create_fallback_response
CreateFallbackResponse(search_query, error) ==
    [kind |-> "fallback", card |-> search_query, from_cache |-> FALSE,
     error |-> error, count |-> 0, average_price |-> 0, min_price |-> 0,
     max_price |-> 0, liquidity |-> "Desconocida",
     price_gap_percentage |-> 0,
     market_insight |-> <<"Error al obtener datos:", error>>,
     cached_at |-> NoTime]

\* the error text research_card_market passes on for an exception
FallbackError(exc) ==
    IF exc = "ratelimit" THEN "Rate limit exceeded. Please try again later."
    ELSE IF exc = "unavailable" THEN "Circuit breaker is open"
    ELSE "search_exc"

\* MarketResearchAgent.__init__: the empty _price_cache dict
EmptyCache == [q \in {} |-> NoMarketResult]

\* MarketResearchAgent._get_cached_price: is there a valid entry
CacheHit(cache, q, t) ==
    /\ q \in DOMAIN cache
    /\ t - cache[q].cached_at < CacheTtlSeconds

\* MarketResearchAgent._cache_price: {**data, "cached_at": now}
CachePrice(cache, q, data, t) ==
    [k \in DOMAIN cache \cup {q} |->
        IF k = q THEN [data EXCEPT !.cached_at = t] ELSE cache[k]]

\* a call: its position, its arguments, the breaker state its __aenter__
\* left behind, whether that __aenter__ made the open -> half-open move
\* (the trial call), and its result
IdleCall == [pc |-> "idle", q |-> "q1", use_cache |-> FALSE,
             enteredIn |-> "none", probe |-> FALSE, res |-> NoMarketResult]

Done(c, r) == [call[c] EXCEPT !.pc = "done", !.res = r]

CBInit ==
    /\ now = 0
    /\ cb = NewBreaker
    /\ call = [c \in Callers |-> IdleCall]
    /\ priceCache = EmptyCache
    /\ streak = 0

\* variant: the breaker is entered before the cache is looked into
BeginBreakerFirst(c) ==
    /\ call[c].pc = "idle"
    /\ \E q \in Queries, uc \in BOOLEAN :
         LET e == AEnter(cb, now) IN
         /\ cb' = e.cb
         /\ IF e.raised
            THEN /\ call' = [call EXCEPT ![c] =
                      [pc |-> "done", q |-> q, use_cache |-> uc,
                       enteredIn |-> "none", probe |-> FALSE,
                       res |-> CreateFallbackResponse(
                                  q, FallbackError("unavailable"))]]
                 /\ UNCHANGED priceCache
            ELSE IF uc /\ CacheHit(priceCache, q, now)
            THEN /\ priceCache' = [priceCache EXCEPT ![q].from_cache = TRUE]
                 /\ call' = [call EXCEPT ![c] =
                      [pc |-> "done", q |-> q, use_cache |-> uc,
                       enteredIn |-> "none", probe |-> FALSE,
                       res |-> priceCache'[q]]]
            ELSE /\ call' = [call EXCEPT ![c] =
                      [pc |-> "searching", q |-> q, use_cache |-> uc,
                       enteredIn |-> e.cb.state,
                       probe |-> (cb.state = "open"),
                       res |-> NoMarketResult]]
                 /\ UNCHANGED priceCache
    /\ UNCHANGED <<now, streak>>
    /\ UNCHANGED restCB

\* research_card_market, lines 102-128: cache check, __aenter__, and the
\* search is started (the coroutine suspends in search_cards)
Begin(c) ==
    /\ call[c].pc = "idle"
    /\ \E q \in Queries, uc \in BOOLEAN :
         IF uc /\ CacheHit(priceCache, q, now)
         THEN /\ priceCache' = [priceCache EXCEPT ![q].from_cache = TRUE]
              /\ call' = [call EXCEPT ![c] =
                   [pc |-> "done", q |-> q, use_cache |-> uc,
                    enteredIn |-> "none", probe |-> FALSE,
                    res |-> priceCache'[q]]]
              /\ UNCHANGED cb
         ELSE LET e == AEnter(cb, now) IN
              /\ cb' = e.cb
              /\ call' = [call EXCEPT ![c] =
                   IF e.raised
                   THEN [pc |-> "done", q |-> q, use_cache |-> uc,
                         enteredIn |-> "none", probe |-> FALSE,
                         res |-> CreateFallbackResponse(
                                    q, FallbackError("unavailable"))]
                   ELSE [pc |-> "searching", q |-> q, use_cache |-> uc,
                         enteredIn |-> e.cb.state,
                         probe |-> (cb.state = "open"),
                         res |-> NoMarketResult]]
              /\ UNCHANGED priceCache
    /\ UNCHANGED <<now, streak>>
    /\ UNCHANGED restCB

\* research_card_market, lines 128-160: search_cards returned listings;
\* __aexit__, _process_listings, _cache_price, return.  _process_listings
\* runs outside the try block: what it raises leaves research_card_market
SearchSucceeds(c) ==
    /\ call[c].pc = "searching"
    /\ \E listings \in SearchOk :
         \E r \in ProcessListings(call[c].q, listings) :
            IF r.kind = "raised"
            THEN /\ call' = [call EXCEPT ![c].pc = "raised"]
                 /\ UNCHANGED priceCache
            ELSE /\ call' = [call EXCEPT ![c] = Done(c, r)]
                 /\ priceCache' = IF call[c].use_cache
                                  THEN CachePrice(priceCache, call[c].q, r, now)
                                  ELSE priceCache
    /\ cb' = AExit(cb, now, FALSE)
    /\ streak' = 0
    /\ UNCHANGED now
    /\ UNCHANGED restCB

\* research_card_market, lines 128-151: search_cards raised; __aexit__,
\* then the fallback response
SearchFails(c) ==
    /\ call[c].pc = "searching"
    /\ cb.failure_count < MaxFailureCount
    /\ \E exc \in SearchExc :
         call' = [call EXCEPT ![c] =
                    Done(c, CreateFallbackResponse(call[c].q,
                                                   FallbackError(exc)))]
    /\ cb' = AExit(cb, now, TRUE)
    /\ streak' = streak + 1
    /\ UNCHANGED <<now, priceCache>>
    /\ UNCHANGED restCB

\* the caller takes the result; it may issue the next request
Collect(c) ==
    /\ call[c].pc \in {"done", "raised"}
    /\ call' = [call EXCEPT ![c] = IdleCall]
    /\ UNCHANGED <<now, cb, priceCache, streak>>
    /\ UNCHANGED restCB

\* the wall clock advances
Tick ==
    /\ now + TimeStep <= MaxTime
    /\ now' = now + TimeStep
    /\ UNCHANGED <<cb, call, priceCache, streak>>
    /\ UNCHANGED restCB

CBNext ==
    \/ \E c \in Callers : Begin(c)
    \/ \E c \in Callers : SearchSucceeds(c)
    \/ \E c \in Callers : SearchFails(c)
    \/ \E c \in Callers : Collect(c)
    \/ Tick

\* ------------------------------------------- the breaker as it recovers
\* The searches fail early on only: a search fails while the clock still
\* has room for the recovery timeout to pass after it.
EarlySearchFails(c) ==
    /\ now + RecoveryTimeout + TimeStep <= MaxTime
    /\ SearchFails(c)

\* a research call of caller c that reaches the breaker: it is not served
\* from the cache (which leaves the breaker as it is)
Attempt(c) ==
    /\ Begin(c)
    /\ call'[c].res.from_cache = FALSE

RecoverNext ==
    \/ \E c \in Callers : Attempt(c)
    \/ \E c \in Callers : SearchSucceeds(c)
    \/ \E c \in Callers : EarlySearchFails(c)
    \/ \E c \in Callers : Collect(c)
    \/ Tick

\* callers keep attempting calls, searches return, results are taken and
\* time advances
RecoverFairness ==
    /\ \A c \in Callers : WF_vars(Attempt(c))
    /\ \A c \in Callers : WF_vars(SearchSucceeds(c))
    /\ \A c \in Callers : WF_vars(Collect(c))
    /\ WF_vars(Tick)

\* ---------------------------------------- the price cache over its TTL
\* One caller issues research_card_market calls one after the other; the
\* clock moves in steps that let an entry reach its TTL.

\* MarketResearchAgent.clear_cache, called between calls or while a call
\* waits for its search
ClearCache ==
    /\ priceCache' = EmptyCache
    /\ UNCHANGED <<now, cb, call, streak>>
    /\ UNCHANGED restCB

\* the wall clock advances by a long step
LongTick ==
    /\ now + CacheStep <= MaxCacheTime
    /\ now' = now + CacheStep
    /\ UNCHANGED <<cb, call, priceCache, streak>>
    /\ UNCHANGED restCB

CacheNext ==
    \/ Begin("r1")
    \/ SearchSucceeds("r1")
    \/ SearchFails("r1")
    \/ Collect("r1")
    \/ ClearCache
    \/ LongTick

\* ------------------------------------------------------------- EBayTool
\* settings.EBAY_APP_ID / EBAY_CLIENT_ID / EBAY_CLIENT_SECRET are set or not
EbayCfgs == [app_id : BOOLEAN, client_id : BOOLEAN, client_secret : BOOLEAN]

\* what the marketplace answers: the OAuth token endpoint, the Browse
\* search, the Finding service (HTTP 429, or HTTP 200 with ack = Failure
\* and a message about the call limit or another message), the scraped page
TokenAnswers == {"ok", "non200"}
BrowseAnswers == {"listings", "empty", "http429", "http500"}
FindingAnswers == {"sold", "empty", "http429", "ack_limit", "ack_failure"}
ScrapeAnswers == {"listings", "empty", "error"}
EbayAnswers == [token : TokenAnswers, browse : BrowseAnswers,
                finding : FindingAnswers, scrape : ScrapeAnswers]
NotCalled == [token |-> "notcalled", browse |-> "notcalled",
              finding |-> "notcalled", scrape |-> "notcalled"]

\* how a backend call ends: it returns listings or raises
Returned(listings) == [raised |-> "none", listings |-> listings]
Raised(exc) == [raised |-> exc, listings |-> << >>]

\* EBayTool._get_oauth_token.  No token is ever cached with an expiry: the
\* statement that stores it evaluates datetime.timedelta on the datetime
\* class and raises AttributeError
GetOauthToken(cfg, token) ==
    IF ~ cfg.client_id \/ ~ cfg.client_secret THEN Raised("ratelimit")
    ELSE IF token = "non200" THEN Raised("ratelimit")
    ELSE Raised("error")

\* EBayTool._search_browse_api; _parse_browse_response sets sold = False
SearchBrowseApi(cfg, token, browse) ==
    LET t == GetOauthToken(cfg, token)
    IN  IF t.raised # "none" THEN t
        ELSE IF browse = "http429" THEN Raised("ratelimit")
        ELSE IF browse = "http500" THEN Raised("error")
        ELSE IF browse = "listings" THEN Returned(<<Listing(59999, FALSE)>>)
        ELSE Returned(<< >>)

\* EBayTool._search_finding_api for sold_items_only: raise_for_status turns
\* HTTP 429 into httpx.HTTPStatusError
SearchFindingApi(finding) ==
    IF finding = "http429" THEN Raised("error")
    ELSE IF finding = "ack_limit" THEN Raised("ratelimit")
    ELSE IF finding = "ack_failure" THEN Raised("error")
    ELSE IF finding = "sold" THEN Returned(SampleListings)
    ELSE Returned(<< >>)

\* EBayTool._scrape_ebay; scraped listings have sold = False
ScrapeEbay(scrape) ==
    IF scrape = "error" THEN Raised("error")
    ELSE IF scrape = "listings" THEN Returned(<<Listing(1999, FALSE)>>)
    ELSE Returned(<< >>)

\* the backends search_cards gets as far as asking
BrowseAsked(cfg) ==
    /\ cfg.app_id \/ cfg.client_id
    /\ cfg.client_id /\ cfg.client_secret
FindingAsked(cfg, ans) ==
    /\ cfg.app_id
    /\ ~ (BrowseAsked(cfg)
          /\ SearchBrowseApi(cfg, ans.token, ans.browse).listings # << >>)
ScrapeAsked(cfg, ans) ==
    /\ cfg.app_id \/ cfg.client_id
    /\ ~ (BrowseAsked(cfg)
          /\ SearchBrowseApi(cfg, ans.token, ans.browse).listings # << >>)
    /\ ~ (FindingAsked(cfg, ans)
          /\ SearchFindingApi(ans.finding).listings # << >>)

\* EBayTool.search_cards: every backend is tried inside try / except
\* Exception, and its listings are returned only when there are any
SearchCards(cfg, ans) ==
    IF ~ cfg.app_id /\ ~ cfg.client_id THEN Raised("ratelimit")
    ELSE LET b == IF cfg.client_id /\ cfg.client_secret
                  THEN SearchBrowseApi(cfg, ans.token, ans.browse)
                  ELSE Returned(<< >>)
             f == IF cfg.app_id THEN SearchFindingApi(ans.finding)
                  ELSE Returned(<< >>)
             s == ScrapeEbay(ans.scrape)
         IN  IF b.listings # << >> THEN Returned(b.listings)
             ELSE IF f.listings # << >> THEN Returned(f.listings)
             ELSE IF s.listings # << >> THEN Returned(s.listings)
             ELSE Returned(<< >>)

\* the answers of the backends that were asked
Heard(cfg, ans) ==
    [token |-> IF BrowseAsked(cfg) THEN ans.token ELSE "notcalled",
     browse |-> IF BrowseAsked(cfg)
                   /\ GetOauthToken(cfg, ans.token).raised = "none"
                THEN ans.browse ELSE "notcalled",
     finding |-> IF FindingAsked(cfg, ans) THEN ans.finding ELSE "notcalled",
     scrape |-> IF ScrapeAsked(cfg, ans) THEN ans.scrape ELSE "notcalled"]

\* the tool is built from the settings; nothing has been asked yet
EbayInit ==
    /\ ebayCfg \in EbayCfgs
    /\ ebayAnswers = NotCalled
    /\ ebayResult = NoMarketResult

\* the tool as it is left alone where the search is not looked into
EbayIdle ==
    /\ ebayCfg = [app_id |-> TRUE, client_id |-> TRUE, client_secret |-> TRUE]
    /\ ebayAnswers = NotCalled
    /\ ebayResult = NoMarketResult

\* one research_card_market call from start to return, not overlapped by
\* another one, with the search done by EBayTool.search_cards
ResearchCardMarket ==
    /\ \E q \in Queries, uc \in BOOLEAN, ans \in EbayAnswers :
         IF uc /\ CacheHit(priceCache, q, now)
         THEN /\ priceCache' = [priceCache EXCEPT ![q].from_cache = TRUE]
              /\ ebayResult' = priceCache'[q]
              /\ ebayAnswers' = NotCalled
              /\ UNCHANGED cb
         ELSE LET e == AEnter(cb, now)
                  out == SearchCards(ebayCfg, ans)
              IN  IF e.raised
                  THEN /\ ebayResult' = CreateFallbackResponse(
                                           q, FallbackError("unavailable"))
                       /\ ebayAnswers' = NotCalled
                       /\ UNCHANGED <<cb, priceCache>>
                  ELSE /\ cb' = AExit(e.cb, now, out.raised # "none")
                       /\ ebayAnswers' = Heard(ebayCfg, ans)
                       /\ IF out.raised # "none"
                          THEN /\ ebayResult' = CreateFallbackResponse(
                                                   q, FallbackError(out.raised))
                               /\ UNCHANGED priceCache
                          ELSE \E r \in ProcessListings(q, out.listings) :
                                 /\ ebayResult' = r
                                 /\ priceCache' =
                                      IF uc /\ r.kind # "raised"
                                      THEN CachePrice(priceCache, q, r, now)
                                      ELSE priceCache
    /\ UNCHANGED <<now, call, streak, ebayCfg>>
    /\ UNCHANGED restEbay

EbayNext ==
    \/ ResearchCardMarket
    \/ Tick

\* ---------------------------------------- _process_listings on its own
\* prices in cents: a price parsed as 0, two prices one cent apart, an
\* economic one and one of the medium segment
Prices == {0, 100, 101, 1999, 12000}

Repeat(x, k) == [i \in 1..k |-> x]

\* lists of sold listings at up to two prices, active listings in between
ListingInputs ==
    {Repeat(Listing(p1, TRUE), k1) \o Repeat(Listing(p3, FALSE), u)
         \o Repeat(Listing(p2, TRUE), k2) :
       <<p1, p2, p3>> \in Prices \X Prices \X {1999},
       <<k1, k2, u>> \in {t \in (0..MaxSold) \X (0..MaxSold) \X (0..MaxUnsold) :
                            t[1] + t[2] <= MaxSold}}

PLInit ==
    /\ plListings \in ListingInputs
    /\ plResult = NoMarketResult

\* no list is being processed
PLIdle ==
    /\ plListings = << >>
    /\ plResult = NoMarketResult

\* self._process_listings(search_query, sold_listings, context_id)
ProcessCall ==
    /\ plResult.kind = "none"
    /\ plResult' \in ProcessListings("q1", plListings)
    /\ UNCHANGED plListings
    /\ UNCHANGED restPL

PLNext == ProcessCall

\* --------------------------------------------------- TradingStrategyAgent
\* Thresholds are scores; the price multipliers are counted in hundredths
\* (0.95 is 95), prices in cents, player scores in tenths of a point,
\* confidences in hundredths and risk/reward ratios in tenths.

\* the defaults of TradingStrategyAgent.__init__
DefaultCfg ==
    [buy_threshold |-> 85, hold_threshold |-> 70, entry_discount |-> 95,
     target_multiplier |-> 125, stop_loss_discount |-> 85]

\* the values a caller configures
CfgChoices ==
    [buy_threshold : {85, 80}, hold_threshold : {70, 60},
     entry_discount : {95, 90}, target_multiplier : {125, 150},
     stop_loss_discount : {85}]

\* the keyword arguments of a set_thresholds call: a parameter that is not
\* in the domain is None
ThresholdArgs ==
    UNION {{a \in [S -> {60, 70, 80, 85, 90, 95, 125, 150}] :
              \A k \in S : a[k] \in {c[k] : c \in CfgChoices}} :
           S \in SUBSET {"buy_threshold", "hold_threshold", "entry_discount",
                         "target_multiplier", "stop_loss_discount"}}

\* market_analysis arguments: the dict lacks (or has an empty)
\* "market_analysis", "sold_items" or "average_price", or the average price
\* is a text, or it is a number of cents
MarketShapes == {"no_market_analysis", "no_sold_items", "no_average_price",
                 "text", "number"}
AveragePrices == {-100, 0, 50, 1999, 50000}
MarketInputs ==
    {m \in [shape : MarketShapes, average_price : AveragePrices] :
        m.shape # "number" => m.average_price = 0}

\* player_analysis arguments: the dict lacks "analysis", "performance_score"
\* or "overall_score", or the score is a number of tenths
PlayerShapes == {"no_analysis", "no_performance_score", "no_overall_score",
                 "number"}
Scores == {0, 599, 600, 699, 700, 799, 800, 849, 850, 899, 900}
PlayerInputs ==
    {p \in [shape : PlayerShapes, overall_score : Scores] :
        p.shape # "number" => p.overall_score = 0}

\* variant: a missing score counts as the lowest score
GetPlayerScoreZero(player_analysis) ==
    IF player_analysis.shape # "number"
    THEN [score |-> 0, estimated |-> TRUE]
    ELSE [score |-> player_analysis.overall_score \div 10,
          estimated |-> FALSE]

\* TradingStrategyAgent._get_player_score: (score, is_estimated); int()
\* drops the fraction
GetPlayerScore(player_analysis) ==
    IF player_analysis.shape # "number"
    THEN [score |-> 50, estimated |-> TRUE]
    ELSE [score |-> player_analysis.overall_score \div 10,
          estimated |-> FALSE]

\* variant: a missing or invalid price is replaced by an estimate of 1.00
GetAveragePriceEstimating(market_analysis) ==
    IF market_analysis.shape \in {"no_market_analysis", "no_sold_items",
                                  "no_average_price"}
    THEN [raised |-> FALSE, price |-> 100, estimated |-> TRUE]
    ELSE IF market_analysis.shape = "text"
    THEN [raised |-> TRUE, price |-> 0, estimated |-> FALSE]
    ELSE IF market_analysis.average_price <= 0
    THEN [raised |-> FALSE, price |-> 100, estimated |-> TRUE]
    ELSE [raised |-> FALSE, price |-> market_analysis.average_price,
          estimated |-> FALSE]

\* TradingStrategyAgent._get_average_price: (price, is_estimated), or the
\* TypeError of comparing a text with 0
GetAveragePrice(market_analysis) ==
    IF market_analysis.shape \in {"no_market_analysis", "no_sold_items",
                                  "no_average_price"}
    THEN [raised |-> FALSE, price |-> 0, estimated |-> TRUE]
    ELSE IF market_analysis.shape = "text"
    THEN [raised |-> TRUE, price |-> 0, estimated |-> FALSE]
    ELSE IF market_analysis.average_price <= 0
    THEN [raised |-> FALSE, price |-> 0, estimated |-> TRUE]
    ELSE [raised |-> FALSE, price |-> market_analysis.average_price,
          estimated |-> FALSE]

\* variant: the class constants BUY_THRESHOLD and HOLD_THRESHOLD are used
DetermineSignalClassConstants(cfg, player_score) ==
    IF player_score >= 85
    THEN [signal |-> "BUY", confidence |-> 80]
    ELSE IF player_score >= 70
    THEN [signal |-> "HOLD", confidence |-> 65]
    ELSE [signal |-> "SELL", confidence |-> 70]

\* TradingStrategyAgent._determine_signal
DetermineSignal(cfg, player_score) ==
    IF player_score >= cfg.buy_threshold
    THEN [signal |-> "BUY", confidence |-> 80]
    ELSE IF player_score >= cfg.hold_threshold
    THEN [signal |-> "HOLD", confidence |-> 65]
    ELSE [signal |-> "SELL", confidence |-> 70]

\* f"{ratio}:1" for the float ratio given in tenths
FormatRatio(ratio) ==
    IF ratio = 30 THEN "3.0:1"
    ELSE IF ratio = 25 THEN "2.5:1"
    ELSE IF ratio = 20 THEN "2.0:1"
    ELSE "1.5:1"

\* variant: the top band starts at the default BUY threshold
CalculateRiskRewardAtBuy(avg_price, player_score) ==
    IF player_score >= 85
    THEN [ratio |-> FormatRatio(30),
          assessment |-> "Favorable - Alto potencial de apreciacion"]
    ELSE IF player_score >= 80
    THEN [ratio |-> FormatRatio(25),
          assessment |-> "Favorable - Buena relacion riesgo/recompensa"]
    ELSE IF player_score >= 70
    THEN [ratio |-> FormatRatio(20),
          assessment |-> "Moderada - Considere otros factores"]
    ELSE [ratio |-> FormatRatio(15),
          assessment |-> "Desfavorable - Alto riesgo"]

\* TradingStrategyAgent._calculate_risk_reward
CalculateRiskReward(avg_price, player_score) ==
    IF player_score >= 90
    THEN [ratio |-> FormatRatio(30),
          assessment |-> "Favorable - Alto potencial de apreciacion"]
    ELSE IF player_score >= 80
    THEN [ratio |-> FormatRatio(25),
          assessment |-> "Favorable - Buena relacion riesgo/recompensa"]
    ELSE IF player_score >= 70
    THEN [ratio |-> FormatRatio(20),
          assessment |-> "Moderada - Considere otros factores"]
    ELSE [ratio |-> FormatRatio(15),
          assessment |-> "Desfavorable - Alto riesgo"]

\* TradingStrategyAgent._generate_reasoning: of the text, the score it
\* states ("tiene un score de {player_score}/100") and whether it carries
\* the note " (precio estimado basado en datos limitados)"
GenerateReasoning(player_score, is_price_estimated) ==
    [score |-> player_score, price_note |-> is_price_estimated]

\* variant: the product is cut off after two decimals
PriceTargetTruncated(avg_price, multiplier) ==
    {(avg_price * multiplier) \div 100}

\* round(avg_price * multiplier, 2)
PriceTarget(avg_price, multiplier) == Round2(avg_price * multiplier, 100)

NoStrategyResult ==
    [error |-> "absent", strategy |-> "absent", signal |-> "none",
     confidence |-> 0, entry_price |-> 0, target_sell_price |-> 0,
     stop_loss |-> 0, average_price |-> 0, ratio |-> "none",
     assessment |-> "none", reasoning_score |-> -1,
     reasoning_price_note |-> FALSE, player_score_estimated |-> FALSE,
     price_estimated |-> FALSE]

\* TradingStrategyAgent._create_error_response
CreateErrorResponse(error) ==
    [NoStrategyResult EXCEPT !.error = error, !.strategy = "null"]

\* variant: the average price is not validated before it is used
GenerateTradingStrategyUnchecked(cfg, market_analysis, player_analysis) ==
    LET s == GetPlayerScore(player_analysis)
        a == GetAveragePrice(market_analysis)
        sig == DetermineSignal(cfg, s.score)
        rr == CalculateRiskReward(a.price, s.score)
        rs == GenerateReasoning(s.score, a.estimated)
    IN  IF a.raised
        THEN {CreateErrorResponse("Error interno al generar estrategia")}
        ELSE {[error |-> "absent", strategy |-> "present",
               signal |-> sig.signal, confidence |-> sig.confidence,
               entry_price |-> e, target_sell_price |-> t, stop_loss |-> l,
               average_price |-> a.price, ratio |-> rr.ratio,
               assessment |-> rr.assessment,
               reasoning_score |-> rs.score,
               reasoning_price_note |-> rs.price_note,
               player_score_estimated |-> s.estimated,
               price_estimated |-> a.estimated] :
                 e \in PriceTarget(a.price, cfg.entry_discount),
                 t \in PriceTarget(a.price, cfg.target_multiplier),
                 l \in PriceTarget(a.price, cfg.stop_loss_discount)}

\* TradingStrategyAgent.generate_trading_strategy: the dicts it can return
\* (of the reasoning, the score and the price note; action_items, a text
\* derived from the signal, is left out)
GenerateTradingStrategy(cfg, market_analysis, player_analysis) ==
    LET s == GetPlayerScore(player_analysis)
        a == GetAveragePrice(market_analysis)
        sig == DetermineSignal(cfg, s.score)
        rr == CalculateRiskReward(a.price, s.score)
        rs == GenerateReasoning(s.score, a.estimated)
    IN  IF a.raised
        THEN {CreateErrorResponse("Error interno al generar estrategia")}
        ELSE IF a.price <= 0
        THEN {CreateErrorResponse("Unable to determine average price")}
        ELSE {[error |-> "absent", strategy |-> "present",
               signal |-> sig.signal, confidence |-> sig.confidence,
               entry_price |-> e, target_sell_price |-> t, stop_loss |-> l,
               average_price |-> a.price, ratio |-> rr.ratio,
               assessment |-> rr.assessment,
               reasoning_score |-> rs.score,
               reasoning_price_note |-> rs.price_note,
               player_score_estimated |-> s.estimated,
               price_estimated |-> a.estimated] :
                 e \in PriceTarget(a.price, cfg.entry_discount),
                 t \in PriceTarget(a.price, cfg.target_multiplier),
                 l \in PriceTarget(a.price, cfg.stop_loss_discount)}

\* the agent is constructed with thresholds of the caller's choice and is
\* about to be called with some market and player analysis
TSInit ==
    /\ tsCfg \in CfgChoices
    /\ tsMarket \in MarketInputs
    /\ tsPlayer \in PlayerInputs
    /\ tsPc = "idle"
    /\ tsResult = NoStrategyResult

\* the agent as it is left alone where the strategy is not looked into
TSIdle ==
    /\ tsCfg = DefaultCfg
    /\ tsMarket = [shape |-> "no_market_analysis", average_price |-> 0]
    /\ tsPlayer = [shape |-> "no_analysis", overall_score |-> 0]
    /\ tsPc = "idle"
    /\ tsResult = NoStrategyResult

\* TradingStrategyAgent.set_thresholds
SetThresholds ==
    /\ \E args \in ThresholdArgs :
         tsCfg' = [k \in DOMAIN tsCfg |->
                     IF k \in DOMAIN args THEN args[k] ELSE tsCfg[k]]
    /\ UNCHANGED <<tsMarket, tsPlayer, tsPc, tsResult>>
    /\ UNCHANGED restTS

\* await strategy_agent.generate_trading_strategy(market, player, card_info)
GenerateCall ==
    /\ tsPc = "idle"
    /\ tsPc' = "returned"
    /\ tsResult' \in GenerateTradingStrategy(tsCfg, tsMarket, tsPlayer)
    /\ UNCHANGED <<tsCfg, tsMarket, tsPlayer>>
    /\ UNCHANGED restTS

\* the caller takes the result; it may call again
TakeStrategy ==
    /\ tsPc = "returned"
    /\ tsPc' = "idle"
    /\ tsResult' = NoStrategyResult
    /\ UNCHANGED <<tsCfg, tsMarket, tsPlayer>>
    /\ UNCHANGED restTS

TSNext ==
    \/ SetThresholds
    \/ GenerateCall
    \/ TakeStrategy

\* ---------------------------------------------------- PlayerAnalysisAgent
\* Statistics are whole numbers of their smallest unit: points_per_game and
\* goals_per_game in hundredths, assists_per_game and rebounds_per_game in
\* tenths, batting_avg in thousandths, the others as they are.

Sports == {"NBA", "NHL", "MLB", "NFL", "Soccer", "Other"}

\* a stats dict; a key that a provider leaves out reads as 0 (stats.get(k, 0))
ZeroStats ==
    [success |-> TRUE, simulated |-> FALSE, points_per_game |-> 0,
     assists_per_game |-> 0, rebounds_per_game |-> 0, goals |-> 0,
     batting_avg |-> 0, home_runs |-> 0, passing_yards |-> 0,
     passing_touchdowns |-> 0, rushing_yards |-> 0,
     rushing_touchdowns |-> 0, receiving_yards |-> 0,
     receiving_touchdowns |-> 0, receptions |-> 0, interceptions |-> 0,
     assists |-> 0, matches_played |-> 0, goals_per_game |-> 0,
     shots_on_target |-> 0]

\* {"success": False, ...}
FailedStats == [ZeroStats EXCEPT !.success = FALSE]

\* the statistics the provider of a sport reports: values on both sides of
\* every threshold, and values far outside what a season produces
StatsOf(sport) ==
    IF sport = "NBA"
    THEN {[ZeroStats EXCEPT !.points_per_game = p, !.assists_per_game = a,
                            !.rebounds_per_game = r] :
             p \in {-100, 1499, 1500, 2000, 2500, 99900}, a \in {0, 50, 70},
             r \in {0, 50, 80}}
    ELSE IF sport = "NHL"
    THEN {[ZeroStats EXCEPT !.points_per_game = p, !.goals = g] :
             p \in {0, 79, 80, 100, 130}, g \in {0, 30, 40, 9999}}
    ELSE IF sport = "MLB"
    THEN {[ZeroStats EXCEPT !.batting_avg = b, !.home_runs = h] :
             b \in {0, 259, 260, 280, 300, 1000}, h \in {0, 20, 30}}
    ELSE IF sport = "NFL"
    THEN {[ZeroStats EXCEPT !.passing_yards = y, !.passing_touchdowns = t,
                            !.interceptions = i, !.rushing_yards = r] :
             y \in {501, 3500, 4000, 4500}, t \in {0, 25, 35},
             i \in {10, 11, 15}, r \in {0, 1400}}
         \cup
         {[ZeroStats EXCEPT !.rushing_yards = y, !.rushing_touchdowns = t,
                            !.receiving_touchdowns = c, !.receptions = n] :
             y \in {401, 900, 1100, 1400}, t \in {0, 8}, c \in {0, 4},
             n \in {0, 50}}
         \cup
         {[ZeroStats EXCEPT !.receiving_yards = y, !.receptions = n,
                            !.receiving_touchdowns = t] :
             y \in {401, 900, 1100, 1400}, n \in {0, 80, 100},
             t \in {0, 7, 10}}
         \cup
         {[ZeroStats EXCEPT !.passing_yards = y, !.rushing_yards = r,
                            !.receiving_yards = c, !.interceptions = 20] :
             y \in {0, 500}, r \in {0, 400}, c \in {0, 400}}
    ELSE IF sport = "Soccer"
    THEN {[ZeroStats EXCEPT !.goals = g, !.assists = a, !.goals_per_game = e,
                            !.shots_on_target = t, !.matches_played = m] :
             g \in {0, 10, 15, 20}, a \in {0, 5, 10, 15}, e \in {0, 50, 70},
             t \in {0, 30}, m \in {0, 30}}
    ELSE {}

\* what the provider of a sport answers: statistics, real or simulated, or
\* a failure
ProviderAnswers(sport) ==
    StatsOf(sport)
    \cup {[x EXCEPT !.simulated = TRUE] : x \in StatsOf(sport)}
    \cup {FailedStats}

\* what Ball Don't Lie answers when it is asked
BdlAnswers ==
    {FailedStats,
     [ZeroStats EXCEPT !.points_per_game = 2710, !.assists_per_game = 83,
                       !.rebounds_per_game = 74]}

\* current_performance: None or empty, a text with one of the words
\* excelente / excellent / hot / racha, a text with lesionado / injured, a
\* text with words of both lists, any other text
PerformanceTexts == {"none", "hot", "injured", "hot_injured", "plain"}

PlayerCalls ==
    {c \in [sport : Sports, primary : UNION {ProviderAnswers(x) : x \in Sports},
            bdl : BdlAnswers, text : PerformanceTexts] :
        /\ c.primary \in ProviderAnswers(c.sport)
        /\ c.sport # "NBA" => c.bdl = FailedStats}

\* PlayerAnalysisAgent._get_real_stats
GetRealStats(sport, primary, bdl) ==
    IF sport = "NBA"
    THEN IF (~ primary.success \/ primary.simulated) /\ bdl.success
         THEN bdl
         ELSE primary
    ELSE IF sport \in {"NHL", "MLB", "NFL", "Soccer"}
    THEN primary
    ELSE FailedStats

\* _analyze_stats, lines 127-148
NbaPoints(stats) ==
    (IF stats.points_per_game >= 2500 THEN 25
     ELSE IF stats.points_per_game >= 2000 THEN 20
     ELSE IF stats.points_per_game >= 1500 THEN 15 ELSE 0)
    + (IF stats.assists_per_game >= 70 THEN 10
       ELSE IF stats.assists_per_game >= 50 THEN 5 ELSE 0)
    + (IF stats.rebounds_per_game >= 80 THEN 10
       ELSE IF stats.rebounds_per_game >= 50 THEN 5 ELSE 0)

\* _analyze_stats, lines 151-165
NhlPoints(stats) ==
    (IF stats.points_per_game >= 130 THEN 30
     ELSE IF stats.points_per_game >= 100 THEN 25
     ELSE IF stats.points_per_game >= 80 THEN 20 ELSE 0)
    + (IF stats.goals >= 40 THEN 15
       ELSE IF stats.goals >= 30 THEN 10 ELSE 0)

\* _analyze_stats, lines 168-182
MlbPoints(stats) ==
    (IF stats.batting_avg >= 300 THEN 25
     ELSE IF stats.batting_avg >= 280 THEN 20
     ELSE IF stats.batting_avg >= 260 THEN 15 ELSE 0)
    + (IF stats.home_runs >= 30 THEN 15
       ELSE IF stats.home_runs >= 20 THEN 10 ELSE 0)

\* _analyze_stats, lines 185-256
NflPoints(stats) ==
    LET is_qb == stats.passing_yards > 500
        is_rb == stats.rushing_yards > 400
        is_wr_te == stats.receiving_yards > 400
        total_tds == stats.rushing_touchdowns + stats.receiving_touchdowns
    IN  IF is_qb
        THEN (IF stats.passing_yards >= 4500 THEN 25
              ELSE IF stats.passing_yards >= 4000 THEN 20
              ELSE IF stats.passing_yards >= 3500 THEN 15 ELSE 0)
             + (IF stats.passing_touchdowns >= 35 THEN 15
                ELSE IF stats.passing_touchdowns >= 25 THEN 10 ELSE 0)
             + (IF stats.interceptions <= 10 THEN 5
                ELSE IF stats.interceptions >= 15 THEN -5 ELSE 0)
        ELSE IF is_rb
        THEN (IF stats.rushing_yards >= 1400 THEN 25
              ELSE IF stats.rushing_yards >= 1100 THEN 20
              ELSE IF stats.rushing_yards >= 900 THEN 15 ELSE 0)
             + (IF total_tds >= 12 THEN 15
                ELSE IF total_tds >= 8 THEN 10 ELSE 0)
             + (IF stats.receptions >= 50 THEN 5 ELSE 0)
        ELSE IF is_wr_te
        THEN (IF stats.receiving_yards >= 1400 THEN 25
              ELSE IF stats.receiving_yards >= 1100 THEN 20
              ELSE IF stats.receiving_yards >= 900 THEN 15 ELSE 0)
             + (IF stats.receptions >= 100 THEN 10
                ELSE IF stats.receptions >= 80 THEN 5 ELSE 0)
             + (IF stats.receiving_touchdowns >= 10 THEN 10
                ELSE IF stats.receiving_touchdowns >= 7 THEN 5 ELSE 0)
        ELSE IF \/ stats.passing_yards > 2000
                \/ stats.rushing_yards > 600
                \/ stats.receiving_yards > 600
        THEN 10
        ELSE 0

\* _analyze_stats, lines 259-293
SoccerPoints(stats) ==
    (IF stats.goals >= 20 THEN 25
     ELSE IF stats.goals >= 15 THEN 20
     ELSE IF stats.goals >= 10 THEN 15 ELSE 0)
    + (IF stats.assists >= 15 THEN 15
       ELSE IF stats.assists >= 10 THEN 10
       ELSE IF stats.assists >= 5 THEN 5 ELSE 0)
    + (IF stats.goals_per_game >= 70 THEN 15
       ELSE IF stats.goals_per_game >= 50 THEN 10 ELSE 0)
    + (IF stats.shots_on_target >= 30 THEN 5 ELSE 0)
    + (IF stats.matches_played >= 30 THEN 5 ELSE 0)

SportPoints(stats, sport) ==
    IF sport = "NBA" THEN NbaPoints(stats)
    ELSE IF sport = "NHL" THEN NhlPoints(stats)
    ELSE IF sport = "MLB" THEN MlbPoints(stats)
    ELSE IF sport = "NFL" THEN NflPoints(stats)
    ELSE IF sport = "Soccer" THEN SoccerPoints(stats)
    ELSE 0

\* _analyze_stats, lines 296-310: the bonus and the trend of the text
TextPoints(performance_text) ==
    IF performance_text \in {"hot", "hot_injured"}
    THEN [points |-> 10, trend |-> "Improving"]
    ELSE IF performance_text = "injured"
    THEN [points |-> -15, trend |-> "Declining"]
    ELSE [points |-> 0, trend |-> "Stable"]

\* _analyze_stats, lines 316-325
Rating(score) ==
    IF score >= 85 THEN "Elite"
    ELSE IF score >= 75 THEN "Excellent"
    ELSE IF score >= 65 THEN "Good"
    ELSE IF score >= 50 THEN "Average"
    ELSE "Below Average"

\* max(0, min(100, score))
LimitScore(score) ==
    IF score > 100 THEN 100 ELSE IF score < 0 THEN 0 ELSE score

\* variant: the score is not limited
AnalyzeStatsUnlimited(stats, sport, performance_text) ==
    IF ~ stats.success
    THEN [score |-> 75, trend |-> "Stable", rating |-> "Good"]
    ELSE LET t == TextPoints(performance_text)
             score == 50 + SportPoints(stats, sport) + t.points
         IN  [score |-> score, trend |-> t.trend, rating |-> Rating(score)]

\* PlayerAnalysisAgent._analyze_stats: (score, trend, rating)
AnalyzeStats(stats, sport, performance_text) ==
    IF ~ stats.success
    THEN [score |-> 75, trend |-> "Stable", rating |-> "Good"]
    ELSE LET t == TextPoints(performance_text)
             score == LimitScore(50 + SportPoints(stats, sport) + t.points)
         IN  [score |-> score, trend |-> t.trend, rating |-> Rating(score)]

\* PlayerAnalysisAgent._generate_outlook: the text up to its note, and
\* whether the note " (basado en datos simulados)" follows
GenerateOutlook(score, trend, stats) ==
    [text |-> IF score >= 85 /\ trend = "Improving" THEN "Muy positivo"
              ELSE IF score >= 75 THEN "Positivo"
              ELSE IF score >= 60 THEN "Neutral"
              ELSE IF trend = "Declining" THEN "Precaucion"
              ELSE "Negativo",
     simulated_note |-> stats.simulated]

\* analyze_player, lines 74-81
RiskLevel(score) ==
    IF score >= 75 THEN "Low" ELSE IF score >= 60 THEN "Medium" ELSE "High"

\* what news_tool.get_player_news does: it returns news items, it returns
\* none, or it raises
NewsAnswers == {"items", "no_items", "raises"}
\* what sentiment_tool.analyze_news_sentiment does
SentimentAnswers == {"ok", "raises"}

NoNews == [raised |-> FALSE, success |-> FALSE, error |-> "absent",
           news_count |-> 0]
\* sentiment_data = None
NoSentiment == [raised |-> FALSE, present |-> FALSE, success |-> FALSE,
                error |-> "absent"]

\* variant: the exception of the news tool is not caught
NewsDataUncaught(answer) ==
    IF answer = "raises"
    THEN [raised |-> TRUE, success |-> FALSE, error |-> "news_exc",
          news_count |-> 0]
    ELSE [raised |-> FALSE, success |-> TRUE, error |-> "absent",
          news_count |-> IF answer = "items" THEN 3 ELSE 0]

\* analyze_player, lines 46-49: news_data
NewsData(answer) ==
    IF answer = "raises"
    THEN [raised |-> FALSE, success |-> FALSE, error |-> "news_exc",
          news_count |-> 0]
    ELSE [raised |-> FALSE, success |-> TRUE, error |-> "absent",
          news_count |-> IF answer = "items" THEN 3 ELSE 0]

\* analyze_player, lines 53-58: sentiment_data
SentimentData(answer) ==
    IF answer = "raises"
    THEN [raised |-> FALSE, present |-> TRUE, success |-> FALSE,
          error |-> "sentiment_exc"]
    ELSE [raised |-> FALSE, present |-> TRUE, success |-> TRUE,
          error |-> "absent"]

NoAnalysis ==
    [score |-> -1, trend |-> "none", rating |-> "none", outlook |-> "none",
     simulated_note |-> FALSE]

NoPlayerResult ==
    [kind |-> "none", overall_score |-> -1, trend |-> "none",
     rating |-> "none", risk_level |-> "none", risk_score |-> -1,
     future_outlook |-> "none", simulated_note |-> FALSE,
     news |-> NoNews, sentiment |-> NoSentiment]

\* analyze_player, lines 60-84: the dict it returns
PlayerResult(analysis, news_data, sentiment_data) ==
    [kind |-> "returned", overall_score |-> analysis.score,
     trend |-> analysis.trend, rating |-> analysis.rating,
     risk_level |-> RiskLevel(analysis.score),
     risk_score |-> 100 - analysis.score,
     future_outlook |-> analysis.outlook,
     simulated_note |-> analysis.simulated_note,
     news |-> news_data, sentiment |-> sentiment_data]

\* the agent is about to be called for some sport and player
PAInit ==
    /\ paIn \in PlayerCalls
    /\ paPc = "idle"
    /\ paAnalysis = NoAnalysis
    /\ paNews = NoNews
    /\ paAsked = FALSE
    /\ paResult = NoPlayerResult

\* the agent as it is left alone where the player analysis is not looked into
PAIdle ==
    /\ paIn = [sport |-> "Other", primary |-> FailedStats,
               bdl |-> FailedStats, text |-> "none"]
    /\ paPc = "idle"
    /\ paAnalysis = NoAnalysis
    /\ paNews = NoNews
    /\ paAsked = FALSE
    /\ paResult = NoPlayerResult

\* analyze_player, lines 35-47: the statistics arrive, score, trend, rating
\* and outlook are computed, the news are asked for
StatsArrive ==
    /\ paPc = "idle"
    /\ LET stats == GetRealStats(paIn.sport, paIn.primary, paIn.bdl)
           a == AnalyzeStats(stats, paIn.sport, paIn.text)
           o == GenerateOutlook(a.score, a.trend, stats)
       IN  paAnalysis' = [score |-> a.score, trend |-> a.trend,
                          rating |-> a.rating, outlook |-> o.text,
                          simulated_note |-> o.simulated_note]
    /\ paPc' = "news"
    /\ paNews' = NoNews
    /\ paAsked' = FALSE
    /\ paResult' = NoPlayerResult
    /\ UNCHANGED paIn
    /\ UNCHANGED restPA

\* analyze_player, lines 46-56 (and 60-84 when there is nothing to analyse):
\* the news tool returns or raises
NewsArrive ==
    /\ paPc = "news"
    /\ \E answer \in NewsAnswers :
         LET n == NewsData(answer) IN
         /\ paNews' = n
         /\ IF n.raised
            THEN /\ paPc' = "returned"
                 /\ paResult' = [NoPlayerResult EXCEPT !.kind = "raised"]
                 /\ UNCHANGED paAsked
            ELSE IF n.success /\ n.news_count > 0
            THEN /\ paPc' = "sentiment"
                 /\ paAsked' = TRUE
                 /\ UNCHANGED paResult
            ELSE /\ paPc' = "returned"
                 /\ paResult' = PlayerResult(paAnalysis, n, NoSentiment)
                 /\ UNCHANGED paAsked
    /\ UNCHANGED <<paIn, paAnalysis>>
    /\ UNCHANGED restPA

\* analyze_player, lines 53-84: the sentiment tool returns or raises
SentimentArrives ==
    /\ paPc = "sentiment"
    /\ \E answer \in SentimentAnswers :
         paResult' = PlayerResult(paAnalysis, paNews, SentimentData(answer))
    /\ paPc' = "returned"
    /\ UNCHANGED <<paIn, paAnalysis, paNews, paAsked>>
    /\ UNCHANGED restPA

\* the caller takes the result; it may call again
TakeAnalysis ==
    /\ paPc = "returned"
    /\ paPc' = "idle"
    /\ paAnalysis' = NoAnalysis
    /\ paNews' = NoNews
    /\ paAsked' = FALSE
    /\ paResult' = NoPlayerResult
    /\ UNCHANGED paIn
    /\ UNCHANGED restPA

PANext ==
    \/ StatsArrive
    \/ NewsArrive
    \/ SentimentArrives
    \/ TakeAnalysis

\* --------------------------- the pipeline from the market result onwards
\* analyze_investment_opportunity once gather() has handed back the two
\* analyses: the Strategy Agent is called with them, then the result is
\* assembled and persisted.

\* the dicts research_card_market returns: the fallback response of each
\* error, the empty response, the snapshots of the sample searches, and
\* what the cache hands back of them
MarketResults ==
    LET fresh ==
          {CreateFallbackResponse("q1", FallbackError(e)) :
              e \in SearchExc \cup {"unavailable"}}
          \cup {r \in UNION {ProcessListings("q1", l) : l \in SearchOk} :
                  r.kind # "raised"}
    IN  fresh
        \cup {[r EXCEPT !.from_cache = TRUE, !.cached_at = 0] :
                r \in {x \in fresh : x.kind # "fallback"}}

\* market_analysis["market_analysis"]["sold_items"]["average_price"] as
\* _get_average_price reads it: every dict research_card_market returns has
\* the key, with a number
MarketAnalysisOf(r) == [shape |-> "number", average_price |-> r.average_price]

PipeInit ==
    /\ pipeMarket \in MarketResults
    /\ pipePlayer \in PlayerInputs
    /\ pipePc = "gathered"
    /\ pipeStrategy = NoStrategyResult
    /\ pipePersisted = 0
    /\ pipeResult = NoResult

\* the pipeline as it is left alone where it is not looked into
PipeIdle ==
    /\ pipeMarket = NoMarketResult
    /\ pipePlayer = [shape |-> "no_analysis", overall_score |-> 0]
    /\ pipePc = "idle"
    /\ pipeStrategy = NoStrategyResult
    /\ pipePersisted = 0
    /\ pipeResult = NoResult

\* supervisor_agent.py:62-68: the Strategy Agent (constructed with its
\* defaults, line 21) is called and returns
PipeGenerate ==
    /\ pipePc = "gathered"
    /\ pipeStrategy' \in GenerateTradingStrategy(
                           DefaultCfg, MarketAnalysisOf(pipeMarket), pipePlayer)
    /\ pipePc' = "generated"
    /\ UNCHANGED <<pipeMarket, pipePlayer, pipePersisted, pipeResult>>
    /\ UNCHANGED restPipe

\* variant: the strategy is not tested for None before it is used
PipeConcludeUnchecked ==
    /\ pipePc = "generated"
    /\ pipePersisted' = pipePersisted + 1
    /\ pipeResult' = IF BindsOk(SaveCallKwargs)
                     THEN FullResult(pipeStrategy)
                     ELSE RaisedResult("TypeError")
    /\ pipePc' = "finished"
    /\ UNCHANGED <<pipeMarket, pipePlayer, pipeStrategy>>
    /\ UNCHANGED restPipe

\* supervisor_agent.py:77-116: the error dict, or the consolidated result
\* and the call of save_analysis_to_db
PipeConclude ==
    /\ pipePc = "generated"
    /\ IF pipeStrategy.strategy = "null"
       THEN /\ pipeResult' = ErrorResult(<<GetError(pipeStrategy)>>)
            /\ UNCHANGED pipePersisted
       ELSE /\ pipePersisted' = pipePersisted + 1
            /\ pipeResult' = IF BindsOk(SaveCallKwargs)
                             THEN FullResult(pipeStrategy)
                             ELSE RaisedResult("TypeError")
    /\ pipePc' = "finished"
    /\ UNCHANGED <<pipeMarket, pipePlayer, pipeStrategy>>
    /\ UNCHANGED restPipe

PipeNext ==
    \/ PipeGenerate
    \/ PipeConclude

\* ------------------------------------------ claims: the circuit breaker
\* steps of a call c, read off the call's position before and after
\* the wrapped search raised and __aexit__ ran
FailedExit(c) ==
    /\ call[c].pc = "searching"
    /\ call'[c].pc = "done"
    /\ call'[c].res.kind = "fallback"
\* the wrapped search returned and __aexit__ ran
SucceededExit(c) ==
    /\ call[c].pc = "searching"
    /\ \/ call'[c].pc = "raised"
       \/ call'[c].pc = "done" /\ call'[c].res.kind # "fallback"
\* the call reached the circuit breaker (it was not served from the cache)
Attempted(c) ==
    /\ call[c].pc = "idle"
    /\ call'[c].pc # "idle"
    /\ ~ call'[c].res.from_cache

\* C6: while the breaker is closed, failure_count is the number of wrapped
\* calls that failed in a row and is below failure_threshold; a further
\* failure opens the breaker exactly when it is the failure_threshold-th
\* in a row and leaves it closed otherwise; a success leaves it closed
\* with failure_count = 0.
C6_OpensAtThreshold ==
    [][cb.state = "closed" =>
         /\ cb.failure_count = streak
         /\ streak < FailureThreshold
         /\ (\E c \in Callers : FailedExit(c)) =>
               /\ cb'.failure_count = streak + 1
               /\ cb'.state = IF streak + 1 = FailureThreshold
                               THEN "open" ELSE "closed"
         /\ (\E c \in Callers : SucceededExit(c)) =>
               /\ cb'.failure_count = 0
               /\ cb'.state = "closed"]_vars

C6_Witness ==
    /\ cb.state = "open"
    /\ streak = FailureThreshold
    /\ cb.failure_count = FailureThreshold

\* C7: a call that reaches the breaker while it is open and no more than
\* recovery_timeout has passed since the last failure ends at once with
\* the fallback response of the unavailable error, the search is not
\* started, and state, failure_count and last_failure stay as they were.
C7_OpenRejectsWithoutCalling ==
    [][\A c \in Callers :
         (/\ Attempted(c)
          /\ cb.state = "open"
          /\ now - cb.last_failure <= RecoveryTimeout) =>
            /\ call'[c].pc = "done"
            /\ call'[c].res.kind = "fallback"
            /\ call'[c].res.error = "Circuit breaker is open"
            /\ ~ call'[c].res.from_cache
            /\ cb' = cb
            /\ \A d \in Callers \ {c} : call'[d] = call[d]]_vars

C7_Witness ==
    \E c \in Callers :
        /\ call[c].pc = "done"
        /\ call[c].res.error = "Circuit breaker is open"
        /\ cb.state = "open"
        /\ now - cb.last_failure = TimeStep

\* C8 (as stated): a call that reaches the open breaker more than
\* recovery_timeout after the last failure moves it to half-open and starts
\* the search; when that call succeeds the breaker is closed with
\* failure_count = 0.
C8_ProbeSuccessCloses ==
    [][\A c \in Callers :
         /\ (/\ Attempted(c)
             /\ cb.state = "open"
             /\ now - cb.last_failure > RecoveryTimeout) =>
               /\ cb'.state = "half-open"
               /\ call'[c].pc = "searching"
         /\ (call[c].probe /\ SucceededExit(c)) =>
               /\ cb'.state = "closed"
               /\ cb'.failure_count = 0]_vars

\* C9 (as stated): whenever the breaker is half-open and a wrapped call
\* fails, the breaker is open afterwards and last_failure is the time of
\* that failure.
C9_HalfOpenFailureReopens ==
    [][(cb.state = "half-open" /\ \E c \in Callers : FailedExit(c)) =>
         /\ cb'.state = "open"
         /\ cb'.last_failure = now]_vars

\* C10 (as stated): a call that reaches the half-open breaker while the
\* trial call is still pending is not passed through to the search.
C10_SingleTrialCall ==
    [][\A c \in Callers :
         (/\ Attempted(c)
          /\ cb.state = "half-open"
          /\ \E d \in Callers \ {c} :
                call[d].pc = "searching" /\ call[d].probe) =>
            call'[c].pc # "searching"]_vars

\* ------------------------------------------- claims: market research
\* the breaker's __aexit__ was handed the exception of call c's search
SearchRaised(c) ==
    /\ call[c].pc = "searching"
    /\ call'[c].pc # "searching"
    /\ cb'.failure_count = cb.failure_count + 1
\* the breaker's __aenter__ raised the unavailable error for call c
BreakerRaised(c) ==
    /\ Attempted(c)
    /\ cb.state = "open"
    /\ now - cb.last_failure <= RecoveryTimeout
\* the figures and texts of the fallback response
FallbackShape(r) ==
    /\ r.count = 0
    /\ r.average_price = 0 /\ r.min_price = 0 /\ r.max_price = 0
    /\ r.liquidity = "Desconocida"
    /\ r.error # "absent"
    /\ r.market_insight = <<"Error al obtener datos:", r.error>>
    /\ ~ r.from_cache

C12_SecondCallServedFromCache ==
    [][\A c, d \in Callers :
         (/\ c # d
          /\ call[c].pc = "done"
          /\ call[c].use_cache
          /\ ~ call[c].res.from_cache
          /\ call[d].pc = "idle"
          /\ call'[d].pc # "idle"
          /\ call'[d].q = call[c].q
          /\ call'[d].use_cache
          /\ now < CacheTtlSeconds) =>
            /\ call'[d].pc = "done"
            /\ call'[d].res.from_cache
            /\ [call'[d].res EXCEPT !.from_cache = FALSE] = call[c].res]_vars

\* C13 (as stated): no entry of the price cache is a fallback response and
\* none is an empty (zero sold listings) response.
C13_OnlySnapshotsCached ==
    \A q \in DOMAIN priceCache :
        /\ priceCache[q].kind # "fallback"
        /\ priceCache[q].error = "absent"
        /\ priceCache[q].count > 0

\* C15 (as stated): when the search succeeds without any sold listing, the
\* call returns the empty snapshot, which is not an error: it has no error
\* field and cannot be taken for the fallback response.
C15_EmptySnapshotIsNoError ==
    [][\A c \in Callers :
         (/\ SucceededExit(c)
          /\ call'[c].pc = "done"
          /\ call'[c].res.count = 0) =>
            /\ call'[c].res.error = "absent"
            /\ ~ FallbackShape(call'[c].res)]_vars

\* C14 (as stated): when a backend asked by the search reports rate
\* limiting (HTTP 429, or it raises the rate-limit error), the result of
\* research_card_market is the fallback response whose error says that the
\* rate limit was exceeded and to try again later.
C14_RateLimitIsReported ==
    (\/ ebayAnswers.token = "non200"
     \/ ebayAnswers.browse = "http429"
     \/ ebayAnswers.finding \in {"http429", "ack_limit"}) =>
        /\ FallbackShape(ebayResult)
        /\ ebayResult.error = "Rate limit exceeded. Please try again later."

\* the sold prices of plListings, read off the list position by position
RECURSIVE SoldSum(_)
SoldSum(k) ==
    IF k = 0 THEN 0
    ELSE SoldSum(k - 1) + (IF plListings[k].sold THEN plListings[k].price
                           ELSE 0)
SoldAt == {i \in 1..Len(plListings) : plListings[i].sold}

\* C16 (as stated): for a list with N >= 1 sold records the result is a
\* snapshot with count = N, average_price = round(mean, 2), min_price and
\* max_price the least and the greatest sold price, and liquidity Alta iff
\* N >= 10, Media iff 5 <= N < 10, Baja otherwise; records that are not
\* sold enter no figure.
C16_SnapshotFigures ==
    LET N == Cardinality(SoldAt) IN
    (plResult.kind # "none" /\ N >= 1) =>
        /\ plResult.kind = "snapshot"
        /\ plResult.count = N
        /\ plResult.average_price \in Round2(SoldSum(Len(plListings)), N)
        /\ \A i \in SoldAt : plResult.min_price <= plListings[i].price
        /\ \E i \in SoldAt : plResult.min_price = plListings[i].price
        /\ \A i \in SoldAt : plResult.max_price >= plListings[i].price
        /\ \E i \in SoldAt : plResult.max_price = plListings[i].price
        /\ (plResult.liquidity = "Alta") <=> (N >= 10)
        /\ (plResult.liquidity = "Media") <=> (5 <= N /\ N < 10)
        /\ (plResult.liquidity = "Baja") <=> (N < 5)

\* C25: in every reachable state of a breaker shared by overlapping
\* research calls, state = open implies failure_count >= failure_threshold
\* (a call that began before the breaker opened and succeeds afterwards
\* does not reset the counter of the open breaker).
C25_OpenKeepsItsCount ==
    cb.state = "open" => cb.failure_count >= FailureThreshold

\* a research_card_market call of caller c begins in this step
CallBegins(c) ==
    /\ call[c].pc = "idle"
    /\ call'[c].pc # "idle"

\* C26: a call with use_cache whose query has an entry younger than the
\* TTL returns that entry (marked from_cache) at once: the breaker is not
\* entered and the search client is not called, whatever the breaker's
\* state, and state, failure_count and last_failure stay as they are.
C26_CacheHitBypassesBreaker ==
    [][\A c \in Callers :
         (/\ CallBegins(c)
          /\ call'[c].use_cache
          /\ call'[c].q \in DOMAIN priceCache
          /\ now - priceCache[call'[c].q].cached_at < CacheTtlSeconds) =>
            /\ call'[c].pc = "done"
            /\ call'[c].enteredIn = "none"
            /\ call'[c].res =
                 [priceCache[call'[c].q] EXCEPT !.from_cache = TRUE]
            /\ cb' = cb]_vars

\* a cache hit is handed out while the breaker is open
C26_Witness ==
    /\ cb.state = "open"
    /\ cb.failure_count >= FailureThreshold
    /\ \E c \in Callers :
         /\ call[c].pc = "done"
         /\ call[c].use_cache
         /\ call[c].res.from_cache = TRUE
         /\ call[c].res.kind = "snapshot"
         /\ call[c].res.cached_at <= cb.last_failure

\* the entry of query q has not reached the TTL
Fresh(q) ==
    /\ q \in DOMAIN priceCache
    /\ now - priceCache[q].cached_at < CacheTtlSeconds

\* C27: an entry cached for a query is served to every caching call for
\* that query while its age is below the TTL (900 s); from age 900 s on
\* the next such call is not served from the cache but goes to the breaker
\* and the search; and no step of the agent removes or replaces an entry
\* whose TTL has not elapsed.
C27_ServedUntilExpiry ==
    [][/\ \A c \in Callers :
            (CallBegins(c) /\ call'[c].use_cache) =>
               IF Fresh(call'[c].q)
               THEN /\ call'[c].pc = "done"
                    /\ call'[c].res.from_cache = TRUE
                    /\ call'[c].res.cached_at = priceCache[call'[c].q].cached_at
               ELSE /\ call'[c].enteredIn # "none" \/ cb.state = "open"
                    /\ call'[c].res.from_cache = FALSE
       /\ \A q \in Queries :
            Fresh(q) =>
               /\ q \in DOMAIN priceCache'
               /\ priceCache'[q].cached_at = priceCache[q].cached_at]_vars

\* C29: once the searches have stopped failing, with callers that keep
\* attempting calls and a clock that advances, a breaker that is open or
\* half-open becomes closed with failure_count = 0.
C29_EventuallyCloses ==
    (cb.state \in {"open", "half-open"}) ~>
        (cb.state = "closed" /\ cb.failure_count = 0)

\* the breaker has closed again after it was open: its last failure is on
\* record, the clock is past the recovery timeout
C29_Witness ==
    /\ cb.state = "closed"
    /\ cb.failure_count = 0
    /\ cb.last_failure # NoTime
    /\ now - cb.last_failure > RecoveryTimeout
    /\ \E c \in Callers : call[c].probe /\ call[c].pc = "done"

\* ------------------------------------------ claims: the Strategy Agent
\* a generate_trading_strategy call returns in this step
StrategyCallReturns ==
    /\ tsPc = "idle"
    /\ tsPc' = "returned"
\* the market data carry an average price above zero
ValidPrice ==
    /\ tsMarket.shape = "number"
    /\ tsMarket.average_price > 0

\* C17: with market data whose average price is missing, zero or negative,
\* generate_trading_strategy returns strategy = null together with an
\* error text; it does not raise and it returns no strategy, hence no
\* price targets of 0.
C17_NoPriceGivesErrorResult ==
    (/\ tsPc = "returned"
     /\ \/ tsMarket.shape \in {"no_market_analysis", "no_sold_items",
                               "no_average_price"}
        \/ tsMarket.shape = "number" /\ tsMarket.average_price <= 0) =>
        /\ tsResult.strategy = "null"
        /\ tsResult.error # "absent"
        /\ tsResult.signal = "none"
        /\ tsResult.entry_price = 0 /\ tsResult.target_sell_price = 0
        /\ tsResult.stop_loss = 0

\* the call of the unit test: an average price of 0
C17_Witness ==
    /\ tsPc = "returned"
    /\ tsMarket = [shape |-> "number", average_price |-> 0]
    /\ tsResult.strategy = "null"
    /\ tsResult.error = "Unable to determine average price"

\* C18: for a player score s and a valid price the signal is BUY with
\* confidence 0.80 if s >= buy_threshold, else HOLD with 0.65 if
\* s >= hold_threshold, else SELL with 0.70, for the thresholds the agent
\* holds when it is called (given at construction or set by set_thresholds
\* since).
C18_SignalByThresholds ==
    [][(/\ StrategyCallReturns
        /\ ValidPrice
        /\ tsPlayer.shape = "number") =>
          LET s == tsPlayer.overall_score IN
          /\ tsResult'.strategy = "present"
          /\ tsResult'.error = "absent"
          /\ IF s >= 10 * tsCfg.buy_threshold
             THEN tsResult'.signal = "BUY" /\ tsResult'.confidence = 80
             ELSE IF s >= 10 * tsCfg.hold_threshold
             THEN tsResult'.signal = "HOLD" /\ tsResult'.confidence = 65
             ELSE tsResult'.signal = "SELL" /\ tsResult'.confidence = 70]_vars

\* a score of 80 is a BUY under a BUY threshold lowered to 80
C18_Witness ==
    /\ tsPc = "returned"
    /\ tsCfg.buy_threshold = 80
    /\ tsPlayer = [shape |-> "number", overall_score |-> 800]
    /\ tsResult.signal = "BUY"
    /\ tsResult.confidence = 80

\* C19: for an average price a > 0 the targets are entry_price =
\* round(a * entry_discount, 2), target_sell_price = round(a *
\* target_multiplier, 2) and stop_loss = round(a * stop_loss_discount, 2);
\* with the defaults, a = 500.00 and a score of 90 the result is BUY, 0.80,
\* entry 475.00, target 625.00, stop-loss 425.00, risk/reward '3.0:1'.
C19_PriceTargets ==
    [][(StrategyCallReturns /\ ValidPrice) =>
          LET a == tsMarket.average_price IN
          /\ tsResult'.average_price = a
          /\ tsResult'.entry_price \in Round2(a * tsCfg.entry_discount, 100)
          /\ tsResult'.target_sell_price \in
               Round2(a * tsCfg.target_multiplier, 100)
          /\ tsResult'.stop_loss \in
               Round2(a * tsCfg.stop_loss_discount, 100)
          /\ (/\ tsCfg = DefaultCfg
              /\ a = 50000
              /\ tsPlayer = [shape |-> "number", overall_score |-> 900]) =>
                /\ tsResult'.signal = "BUY"
                /\ tsResult'.confidence = 80
                /\ tsResult'.entry_price = 47500
                /\ tsResult'.target_sell_price = 62500
                /\ tsResult'.stop_loss = 42500
                /\ tsResult'.ratio = "3.0:1"]_vars

C19_Witness ==
    /\ tsPc = "returned"
    /\ tsCfg = DefaultCfg
    /\ tsMarket = [shape |-> "number", average_price |-> 50000]
    /\ tsPlayer = [shape |-> "number", overall_score |-> 900]
    /\ tsResult.entry_price = 47500
    /\ tsResult.target_sell_price = 62500
    /\ tsResult.stop_loss = 42500

\* C20: the risk/reward of a strategy depends on the player score alone:
\* score >= 90 gives '3.0:1' (favourable, high appreciation potential),
\* >= 80 '2.5:1' (favourable), >= 70 '2.0:1' (moderate), lower '1.5:1'
\* (unfavourable, high risk), whatever the signal thresholds are.
C20_RiskRewardBands ==
    [][(/\ StrategyCallReturns
        /\ ValidPrice
        /\ tsPlayer.shape = "number") =>
          LET s == tsPlayer.overall_score IN
          IF s >= 900
          THEN /\ tsResult'.ratio = "3.0:1"
               /\ tsResult'.assessment =
                    "Favorable - Alto potencial de apreciacion"
          ELSE IF s >= 800
          THEN /\ tsResult'.ratio = "2.5:1"
               /\ tsResult'.assessment =
                    "Favorable - Buena relacion riesgo/recompensa"
          ELSE IF s >= 700
          THEN /\ tsResult'.ratio = "2.0:1"
               /\ tsResult'.assessment = "Moderada - Considere otros factores"
          ELSE /\ tsResult'.ratio = "1.5:1"
               /\ tsResult'.assessment = "Desfavorable - Alto riesgo"]_vars

\* under a BUY threshold of 80 a score of 85 is a BUY of the '2.5:1' band
C20_Witness ==
    /\ tsPc = "returned"
    /\ tsCfg.buy_threshold = 80
    /\ tsCfg.hold_threshold = 60
    /\ tsPlayer = [shape |-> "number", overall_score |-> 850]
    /\ tsResult.signal = "BUY"
    /\ tsResult.ratio = "2.5:1"

\* C21: in a strategy (the price is valid), a player analysis without an
\* analysis section, without performance_score or without overall_score
\* gives the default score 50 and player_score_estimated = true, hence SELL
\* under the default thresholds; with an overall_score present the score
\* used is that score (as the integer int() makes of it) and
\* player_score_estimated = false.
C21_DefaultPlayerScore ==
    [][(StrategyCallReturns /\ ValidPrice) =>
          /\ tsResult'.strategy = "present"
          /\ IF tsPlayer.shape \in {"no_analysis", "no_performance_score",
                                    "no_overall_score"}
             THEN /\ tsResult'.reasoning_score = 50
                  /\ tsResult'.player_score_estimated = TRUE
                  /\ tsCfg = DefaultCfg => tsResult'.signal = "SELL"
             ELSE /\ tsResult'.reasoning_score = tsPlayer.overall_score \div 10
                  /\ tsResult'.player_score_estimated = FALSE]_vars

\* the call of the unit test: no performance_score, default thresholds
C21_Witness ==
    /\ tsPc = "returned"
    /\ tsCfg = DefaultCfg
    /\ tsPlayer.shape = "no_performance_score"
    /\ tsResult.strategy = "present"
    /\ tsResult.signal = "SELL"
    /\ tsResult.reasoning_score = 50
    /\ tsResult.player_score_estimated = TRUE

\* C30: a result of generate_trading_strategy that is not the error result
\* has data_quality.price_estimated = false and a reasoning without the
\* estimated-price note; market data whose price had to be estimated end
\* in the error result.
C30_NoStrategyFromEstimatedPrice ==
    tsPc = "returned" =>
        /\ tsResult.strategy = "present" =>
              /\ tsResult.price_estimated = FALSE
              /\ tsResult.reasoning_price_note = FALSE
        /\ (tsMarket.shape # "number" \/ tsMarket.average_price <= 0) =>
              /\ tsResult.strategy = "null"
              /\ tsResult.error # "absent"

\* a strategy out of a valid price: neither the flag nor the note
C30_Witness ==
    /\ tsPc = "returned"
    /\ tsMarket = [shape |-> "number", average_price |-> 1999]
    /\ tsResult.strategy = "present"
    /\ tsResult.price_estimated = FALSE
    /\ tsResult.reasoning_price_note = FALSE

\* -------------------------------------- claims: the Player Analysis Agent
\* analyze_player has returned a dict
PlayerReturned ==
    /\ paPc = "returned"
    /\ paResult.kind = "returned"

\* C22: the overall_score analyze_player returns lies in [0, 100], for
\* every sport, every combination of statistics and every performance
\* text, with statistics and on the fallback path without them.
C22_ScoreWithinRange ==
    PlayerReturned =>
        /\ paResult.overall_score >= 0
        /\ paResult.overall_score <= 100

\* bonuses that add up to more than 100 are cut back to 100
C22_Witness ==
    /\ PlayerReturned
    /\ LET stats == GetRealStats(paIn.sport, paIn.primary, paIn.bdl) IN
       /\ stats.success
       /\ 50 + SportPoints(stats, paIn.sport)
             + TextPoints(paIn.text).points > 100
    /\ paResult.overall_score = 100

\* C23: in every result of analyze_player the rating is the band of the
\* overall score: Elite iff score >= 85, Excellent iff 75 <= score < 85,
\* Good iff 65 <= score < 75, Average iff 50 <= score < 65, Below Average
\* iff score < 50.
C23_RatingIsBandOfScore ==
    PlayerReturned =>
        LET score == paResult.overall_score
            rating == paResult.rating
        IN  /\ rating = "Elite" <=> score >= 85
            /\ rating = "Excellent" <=> (75 <= score /\ score < 85)
            /\ rating = "Good" <=> (65 <= score /\ score < 75)
            /\ rating = "Average" <=> (50 <= score /\ score < 65)
            /\ rating = "Below Average" <=> score < 50

\* C24: when the news tool or the sentiment tool raises, analyze_player
\* still returns, with the score, trend, rating and outlook computed from
\* the statistics, and with the error in the news field, respectively the
\* sentiment field, only; the sentiment tool is called only after the news
\* tool returned at least one item.
C24_NewsFailureIsConfined ==
    /\ paAsked => (paNews.success /\ paNews.news_count > 0)
    /\ paPc = "returned" =>
         LET stats == GetRealStats(paIn.sport, paIn.primary, paIn.bdl)
             a == AnalyzeStats(stats, paIn.sport, paIn.text)
         IN  /\ paResult.kind = "returned"
             /\ paResult.overall_score = a.score
             /\ paResult.trend = a.trend
             /\ paResult.rating = a.rating
             /\ paResult.future_outlook =
                  GenerateOutlook(a.score, a.trend, stats).text
             /\ paResult.news = paNews
             /\ paNews.error # "absent" =>
                  /\ paNews.success = FALSE
                  /\ paResult.sentiment = NoSentiment
             /\ paResult.sentiment.present = paAsked
             /\ paResult.sentiment.error # "absent" =>
                  /\ paResult.sentiment.success = FALSE
                  /\ paResult.news.success = TRUE

\* the news tool raised: the result has the score and the error in "news"
C24_Witness ==
    /\ PlayerReturned
    /\ paNews.error = "news_exc"
    /\ paResult.news.success = FALSE
    /\ paResult.news.error = "news_exc"
    /\ paResult.overall_score >= 0
    /\ paResult.rating # "none"
    /\ paAsked = FALSE

\* --------------------------------------------------- claims: the pipeline
\* C28: when the market research handed back the fallback response or the
\* empty response, analyze_investment_opportunity returns success = false
\* without a recommendation, whatever the player analysis says, and
\* save_analysis_to_db is not called.
C28_NoMarketDataNoRecommendation ==
    (pipePc = "finished" /\ pipeMarket.kind \in {"fallback", "empty"}) =>
        /\ pipeResult.kind = "returned"
        /\ pipeResult.success = "false"
        /\ pipeResult.recommendation = "absent"
        /\ pipeStrategy.strategy = "null"
        /\ pipePersisted = 0

\* a fallback response next to a player score of 90
C28_Witness ==
    /\ pipePc = "finished"
    /\ pipeMarket.kind = "fallback"
    /\ pipePlayer = [shape |-> "number", overall_score |-> 900]
    /\ pipeResult.success = "false"
    /\ pipeResult.recommendation = "absent"
    /\ pipePersisted = 0

Init ==
    SupInit /\ CBInit /\ EbayIdle /\ PLIdle
    /\ TSIdle /\ PAIdle /\ PipeIdle

SpecSup == Init /\ [][SupNext]_vars
SpecCB == Init /\ [][CBNext]_vars

\* the initial states of the specifications that look into one component
InitEbay ==
    SupInit /\ CBInit /\ EbayInit /\ PLIdle
    /\ TSIdle /\ PAIdle /\ PipeIdle
InitPL ==
    SupInit /\ CBInit /\ EbayIdle /\ PLInit
    /\ TSIdle /\ PAIdle /\ PipeIdle
InitTS ==
    SupInit /\ CBInit /\ EbayIdle /\ PLIdle
    /\ TSInit /\ PAIdle /\ PipeIdle
InitPA ==
    SupInit /\ CBInit /\ EbayIdle /\ PLIdle
    /\ TSIdle /\ PAInit /\ PipeIdle
InitPipe ==
    SupInit /\ CBInit /\ EbayIdle /\ PLIdle
    /\ TSIdle /\ PAIdle /\ PipeInit

SpecRecover == Init /\ [][RecoverNext]_vars /\ RecoverFairness
SpecCache == Init /\ [][CacheNext]_vars
SpecEbay == InitEbay /\ [][EbayNext]_vars
SpecPL == InitPL /\ [][PLNext]_vars
SpecTS == InitTS /\ [][TSNext]_vars
SpecPA == InitPA /\ [][PANext]_vars
SpecPipe == InitPipe /\ [][PipeNext]_vars
====
